---- MODULE Spec2Model ----
(***************************************************************************)
(* State-machine model of the ST7789 dashboard: the display driver         *)
(* (drivers/st7789_display_driver.py) and the carousel dashboard that      *)
(* drives it (dashboards/st7789_carousel_dashboard.py).                    *)
(*                                                                         *)
(* Time is counted in milliseconds.  `now' is the least time that can have *)
(* elapsed: time.sleep(d) advances it by exactly d, everything else by 0.  *)
(* A bus write is one call of spi.writebytes; it is recorded with the      *)
(* level the data/command line has at that moment.                         *)
(***************************************************************************)
EXTENDS Integers, Sequences, FiniteSets, TLC

VARIABLES
    pc,               \* position of the single thread of control
    now,              \* clock, ms
    gpio,             \* levels of the three control lines
    spi_open,         \* the bus handle is open
    bus,              \* bus writes of the running driver operation (constructor or update())
    rst_log,          \* outputs made on the reset line, with their time
    panel,            \* controller state of section 4.4 (observer)
    init_i,           \* index into init_sequence (_init_display's loop)
    image_len,        \* len(image_data) of the frame being sent
    chunk_i,          \* loop variable i of _send_image_data
    frame_status,     \* outcome of the last update(): none | sending | sent | dropped
    running,          \* CarouselDashboard.running
    history,          \* CarouselDashboard.history: key -> deque contents, oldest first
    stats,            \* CarouselDashboard.stats (the five graphed metrics)
    pushed,           \* observer: every sample ever appended, per key
    values,           \* draw_graph's local `values'
    current_page,     \* CarouselDashboard.current_page (0-based)
    page_start_time,  \* CarouselDashboard.page_start_time, ms
    page_duration,    \* --page argument, seconds
    dashboard,        \* which dashboard script runs: carousel | premium
    iter,             \* completed main-loop iterations
    seed,             \* which reading stream the collectors replay
    rgb_data,         \* converter input: image.tobytes()
    rgb565,           \* converter output
    update_ret,       \* what the last update() call gave its caller
    flips,            \* observer: the clock at each page change
    drawn,            \* draw calls made by the graph routine of the last render
    env,              \* what the collectors' sources hold at the last update step
    rendered,         \* observer: the last render (renderer, rings indexed, iteration)
    graph_call,       \* a graph routine called on its own: arguments and outcome
    prev_status,      \* observer: outcome of the update() before the one last begun
    signal_at,        \* observer: the iteration and the pushes made when the signal came
    cleanup_log       \* observer: the GPIO calls made by ST7789Display.cleanup, in order

vars == <<pc, now, gpio, spi_open, bus, rst_log, panel, init_i, image_len,
          chunk_i, frame_status, running, history, stats, pushed, values,
          current_page, page_start_time, page_duration, dashboard, iter, seed,
          rgb_data, rgb565, update_ret, flips, drawn, env, rendered, graph_call,
          prev_status, signal_at, cleanup_log>>

callVars == <<rendered, graph_call, prev_status, signal_at, cleanup_log>>

obsVars == <<update_ret, flips, drawn, callVars>>

driverVars == <<gpio, spi_open, bus, rst_log, panel, init_i, image_len,
                chunk_i, frame_status>>
dashVars == <<running, history, stats, pushed, values, current_page,
              page_start_time, page_duration, dashboard, iter>>
convVars == <<rgb_data, rgb565>>

----------------------------------------------------------------------------
(* Bounds of the model *)
MaxIter == 3        \* main-loop iterations explored
MaxPushes == 23     \* update steps explored by the history specification
MaxSeed == 4        \* reading streams 0..MaxSeed
MaxPixels == 2      \* pixels of a converter input
MaxTicks == 12      \* ticks explored by the sequencer specification

MaxSamples == 3     \* samples in a ring of the graph specification

MaxFrameLen == 8193 \* frame lengths 0..MaxFrameLen of the transfer specification

(* Program constants *)
WIDTH == 240
HEIGHT == 280
chunk_size == 4096
maxlen == 20
update_interval == 1

HIGH == "HIGH"
LOW == "LOW"
UNSET == "UNSET"
NONE == "NONE"

Keys == {"cpu", "memory", "cpu_temp", "gpu_temp", "disk"}

pages == << [title |-> "CPU",      stat_key |-> "cpu",      max_val |-> 100],
            [title |-> "RAM",      stat_key |-> "memory",   max_val |-> 100],
            [title |-> "CPU Temp", stat_key |-> "cpu_temp", max_val |-> 100],
            [title |-> "GPU Temp", stat_key |-> "gpu_temp", max_val |-> 100],
            [title |-> "Disk",     stat_key |-> "disk",     max_val |-> 100] >>

(* PremiumDashboard.pages, lines 103-113 *)
premium_pages ==
    << [title |-> "CPU",         stat_key |-> "cpu",         max_val |-> 100,
        graph_type |-> "smooth_area"],
       [title |-> "RAM",         stat_key |-> "memory",      max_val |-> 100,
        graph_type |-> "filled_area"],
       [title |-> "CPU TEMP",    stat_key |-> "cpu_temp",    max_val |-> 100,
        graph_type |-> "gauge"],
       [title |-> "GPU TEMP",    stat_key |-> "gpu_temp",    max_val |-> 100,
        graph_type |-> "gauge"],
       [title |-> "DISK",        stat_key |-> "disk",        max_val |-> 100,
        graph_type |-> "filled_area"],
       [title |-> "LOAD AVG",    stat_key |-> "load",        max_val |-> 10,
        graph_type |-> "bars"],
       [title |-> "NETWORK",     stat_key |-> "network",     max_val |-> 1000000,
        graph_type |-> "smooth_area"],
       [title |-> "CONNECTIONS", stat_key |-> "connections", max_val |-> 100,
        graph_type |-> "info"],
       [title |-> "NAS STORAGE", stat_key |-> "nas",         max_val |-> 100,
        graph_type |-> "info"] >>

(* self.pages of the running dashboard *)
pages_of(d) == IF d = "premium" THEN premium_pages ELSE pages

(* (cmd, data, delay ms); data None is the empty sequence *)
init_sequence == << [cmd |-> 1,  data |-> <<>>,  delay |-> 100],   \* 0x01 SWRESET
                    [cmd |-> 17, data |-> <<>>,  delay |-> 50],    \* 0x11 SLPOUT
                    [cmd |-> 58, data |-> <<5>>, delay |-> 0],     \* 0x3A COLMOD
                    [cmd |-> 54, data |-> <<0>>, delay |-> 0],     \* 0x36 MADCTL
                    [cmd |-> 33, data |-> <<>>,  delay |-> 0],     \* 0x21 INVON
                    [cmd |-> 19, data |-> <<>>,  delay |-> 0],     \* 0x13 NORON
                    [cmd |-> 41, data |-> <<>>,  delay |-> 10] >>  \* 0x29 DISPON

----------------------------------------------------------------------------
(* Integer bit operations, as Python computes them on non-negative ints *)
RECURSIVE BitOr(_, _)
BitOr(a, b) ==
    IF a = 0 THEN b
    ELSE IF b = 0 THEN a
    ELSE (IF a % 2 = 1 \/ b % 2 = 1 THEN 1 ELSE 0) + 2 * BitOr(a \div 2, b \div 2)

RECURSIVE BitAnd(_, _)
BitAnd(a, b) ==
    IF a = 0 \/ b = 0 THEN 0
    ELSE (IF a % 2 = 1 /\ b % 2 = 1 THEN 1 ELSE 0) + 2 * BitAnd(a \div 2, b \div 2)

Shr(a, n) == a \div (2 ^ n)
Shl(a, n) == a * (2 ^ n)

Min(a, b) == IF a < b THEN a ELSE b

----------------------------------------------------------------------------
(* Control lines and bus *)
GpioOutput(g, pin, level) == [g EXCEPT ![pin] = level]

(* one spi.writebytes call: what was written and how the D/C line stood *)
BusEntry(kind, bytes, lo, hi, g, t) ==
    [kind |-> kind, bytes |-> bytes, lo |-> lo, hi |-> hi, dc |-> g.dc, t |-> t]


(* mutant: _write_command leaves the data/command line as it is *)
write_command_noselect(g) == g

(* _write_command, lines 87-90: select command mode, then write [cmd] *)
write_command_select(g) == GpioOutput(g, "dc", LOW)

write_command(g, b, cmd, t) ==
    LET g1 == write_command_select(g)
    IN  [gpio |-> g1, bus |-> Append(b, BusEntry("cmd", <<cmd>>, 0, 0, g1, t))]

(* _write_data, lines 92-95: select data mode, then write the bytes *)
write_data_select(g) == GpioOutput(g, "dc", HIGH)

write_data(g, b, data, t) ==
    LET g1 == write_data_select(g)
    IN  [gpio |-> g1, bus |-> Append(b, BusEntry("data", data, 0, 0, g1, t))]

(* _send_image_data, line 212: data mode for the pixel stream *)
send_data_select(g) == GpioOutput(g, "dc", HIGH)

(* mutant: a slice one byte short of the loop's step *)
chunk_slice_short(len, i) == [lo |-> i, hi |-> Min(i + 4095, len)]

(* _send_image_data, lines 214-215: the slice image_data[i : i + chunk_size] *)
chunk_slice(len, i) == [lo |-> i, hi |-> Min(i + chunk_size, len)]

(* _send_image_data, line 214: the step of range(0, len, chunk_size) *)
chunk_next(i) == i + chunk_size

(* mutant: the row window copied from the column window *)
row_address_as_column == <<0, 0, 0, 239>>

(* _send_image_data, lines 203 and 206: the address payloads *)
column_address == <<0, 0, 0, 239>>   \* 0x00 0x00 0x00 0xEF
row_address == <<0, 0, 1, 23>>       \* 0x00 0x00 0x01 0x17

----------------------------------------------------------------------------
(* mutant: green shifted like red and blue (5 bits) *)
rgb565_pixel_g5(r8, g8, b8) ==
    BitOr(BitOr(Shl(Shr(r8, 3), 11), Shl(Shr(g8, 3), 5)), Shr(b8, 3))

(* _convert_to_rgb565, lines 184-198 *)
rgb565_pixel(r8, g8, b8) ==
    LET r == Shr(r8, 3)
        g == Shr(g8, 2)
        b == Shr(b8, 3)
    IN  BitOr(BitOr(Shl(r, 11), Shl(g, 5)), b)

rgb565_bytes(pixel) == << Shr(pixel, 8), BitAnd(pixel, 255) >>

RECURSIVE convert_from(_, _)
convert_from(rgb, i) ==
    IF i >= Len(rgb) THEN <<>>
    ELSE rgb565_bytes(rgb565_pixel(rgb[i + 1], rgb[i + 2], rgb[i + 3]))
         \o convert_from(rgb, i + 3)

convert_to_rgb565(rgb) == convert_from(rgb, 0)

(* len(image.tobytes()) of the WIDTH x HEIGHT RGB buffer, lines 60 and 186 *)
image_bytes_len == WIDTH * HEIGHT * 3

(* len(_convert_to_rgb565(image)): two bytes per loop pass of line 189 *)
rgb565_len(n) == 2 * ((n + 2) \div 3)

----------------------------------------------------------------------------
(* Bounded metric history *)

(* mutant: a deque built without maxlen *)
deque_append_unbounded(d, x) == Append(d, x)

(* mutant: a full ring refuses the new sample instead of evicting *)
deque_append_keep_oldest(d, x) ==
    IF Len(d) >= 20 THEN d ELSE Append(d, x)

(* deque(maxlen=20).append, lines 36 and 90: a full deque drops its oldest *)
deque_append(d, x) ==
    IF Len(d) >= maxlen THEN Tail(d) \o <<x>> ELSE Append(d, x)

(* The collectors of the driver module, lines 225-333.  e.raw is what the
   collector's source (/proc, /sys, vcgencmd, the file system, the network)
   yields, e.broken the collectors whose source cannot be read.  A call's
   outcome is what it returns, or that it raised. *)
Collectors == <<"cpu", "memory", "cpu_temp", "gpu_temp", "disk", "uptime",
                "ip", "hostname">>

Returns(v) == [raised |-> FALSE, value |-> v]

get_cpu_usage(e) == Returns(IF "cpu" \in e.broken THEN 0 ELSE e.raw.cpu)

get_memory_usage(e) == Returns(IF "memory" \in e.broken THEN 0 ELSE e.raw.memory)

get_temperature(e) == Returns(IF "cpu_temp" \in e.broken THEN 0 ELSE e.raw.cpu_temp)

(* mutant: the collector has no try/except *)
get_gpu_temperature_unguarded(e) ==
    [raised |-> "gpu_temp" \in e.broken, value |-> e.raw.gpu_temp]

get_gpu_temperature(e) ==
    Returns(IF "gpu_temp" \in e.broken THEN 0 ELSE e.raw.gpu_temp)

get_disk_usage(e) ==
    Returns(IF "disk" \in e.broken THEN [percent |-> 0, used |-> 0, total |-> 0]
                                   ELSE e.raw.disk)

get_uptime(e) == Returns(IF "uptime" \in e.broken THEN "N/A" ELSE e.raw.uptime)

get_ip_address(e) == Returns(IF "ip" \in e.broken THEN "N/A" ELSE e.raw.ip)

get_hostname(e) == Returns(IF "hostname" \in e.broken THEN "RPi5" ELSE e.raw.hostname)

(* CarouselDashboard.__init__, lines 44-53 *)
initial_stats ==
    [cpu |-> 0, memory |-> 0, cpu_temp |-> 0, gpu_temp |-> 0,
     disk |-> [percent |-> 0], uptime |-> "0m", ip |-> "N/A", hostname |-> "RPi5"]

(* update_stats, lines 78-87: the calls in the order of the try body; the
   disk entry is the percent of the collector's dict *)
update_stats_calls(e) ==
    [cpu |-> get_cpu_usage(e), memory |-> get_memory_usage(e),
     cpu_temp |-> get_temperature(e), gpu_temp |-> get_gpu_temperature(e),
     disk |-> LET d == get_disk_usage(e)
              IN  [raised |-> d.raised, value |-> d.value.percent],
     uptime |-> get_uptime(e), ip |-> get_ip_address(e),
     hostname |-> get_hostname(e)]

(* the first call of the try body that raises, or past the last *)
update_stats_raised_at(calls) ==
    IF \E i \in 1..Len(Collectors) : calls[Collectors[i]].raised
      THEN CHOOSE i \in 1..Len(Collectors) :
             /\ calls[Collectors[i]].raised
             /\ \A j \in 1..(i - 1) : ~calls[Collectors[j]].raised
      ELSE Len(Collectors) + 1

(* lines 79-87: the assignments made before the try body ended *)
update_stats_stats(st, calls) ==
    [k \in DOMAIN st |->
       IF \E i \in 1..(update_stats_raised_at(calls) - 1) : Collectors[i] = k
         THEN calls[k].value ELSE st[k]]

(* lines 89-97: one sample per key, unless the except clause was entered *)
update_stats_history(h, st, calls) ==
    IF update_stats_raised_at(calls) <= Len(Collectors)
      THEN h
      ELSE [k \in Keys |-> deque_append(h[k], st[k])]

(* mutant: values = data, the deque itself instead of a copy *)
list_of_alias(key, h) == [alias |-> key, items |-> <<>>]

(* values = list(data), line 105: a new list holding the deque's contents *)
list_of(key, h) == [alias |-> NONE, items |-> h[key]]

(* what a name bound to a list or to a deque reads now *)
Deref(v, h) == IF v.alias = NONE THEN v.items ELSE h[v.alias]

(* draw_graph, lines 101-105: fewer than two samples draw nothing *)
draw_graph_values(key, h, old) == IF Len(h[key]) < 2 THEN old ELSE list_of(key, h)

(* mutant: the comparison is strict *)
page_due_strict(t, start, dur) == t - start > dur * 1000

----------------------------------------------------------------------------
(* The graph routines.  A draw call is recorded with its coordinates times *)
(* `scale': 1 where the code computes integers, 2 * len(values) where it   *)
(* subtracts half a point width (a float) from an x coordinate.  `what'    *)
(* names the part of the picture the call belongs to.  int(i * (width /    *)
(* len(values))) and int((v / max_val) * height) are computed in floats;   *)
(* for the graph regions used (210 x 110 and 220 x 122), up to 21 points   *)
(* and readings of one decimal in 0..100 against max_val 100, the float    *)
(* results equal the exact floors taken here.                              *)
draw_line(what, x1, y1, x2, y2, w) ==
    [op |-> "line", what |-> what, x1 |-> x1, y1 |-> y1, x2 |-> x2, y2 |-> y2,
     width |-> w, scale |-> 1]

draw_rectangle(what, x1, y1, x2, y2, sc) ==
    [op |-> "rectangle", what |-> what, x1 |-> x1, y1 |-> y1, x2 |-> x2,
     y2 |-> y2, width |-> 0, scale |-> sc]

RECURSIVE Flatten(_)
Flatten(ss) == IF ss = <<>> THEN <<>> ELSE Head(ss) \o Flatten(Tail(ss))

(* range(0, height, step) as a sequence *)
range_step(height, step) == [j \in 1..((height + step - 1) \div step) |-> (j - 1) * step]

(* x + int(i * point_width), i counted from 0 *)
point_x(x, width, n, i) == x + ((i * width) \div n)

(* mutant: the scaled value is rounded to the nearest pixel *)
point_y_rounded(y, height, v, max_val) ==
    y + height - ((2 * v * height + max_val) \div (2 * max_val))

(* mutant: the scaled value is clamped to the region's height *)
point_y_clamped(y, height, v, max_val) ==
    y + height - Min(height, (v * height) \div max_val)

(* mutant: y grows with the value, as pixel rows do *)
point_y_downward(y, height, v, max_val) == y + ((v * height) \div max_val)

(* y + height - int((v / max_val) * height) *)
point_y(y, height, v, max_val) == y + height - ((v * height) \div max_val)

(* carousel draw_graph, lines 99-144, with animation_frame = 0 *)
draw_graph_segment(x, y, width, height, vals, max_val, i) ==
    LET n == Len(vals)
        x1 == point_x(x, width, n, i)
        y1 == point_y(y, height, vals[i + 1], max_val)
        x2 == point_x(x, width, n, i + 1)
        y2 == point_y(y, height, vals[i + 2], max_val)
    IN  IF x2 >= x /\ x1 <= x + width
          THEN <<draw_line("segment", x1, y1, x2, y2, 2)>>
               \o (IF i % 4 = 0
                     THEN <<draw_rectangle("point", x1 - 2, y1 - 2, x1 + 2, y1 + 2, 1)>>
                     ELSE <<>>)
          ELSE <<>>

(* mutant: the guard of line 101 is missing (the point loop is empty for
   fewer than two values, the rest is drawn) *)
draw_graph_unguarded(x, y, width, height, data, max_val) ==
    LET vals == data
        new_y == point_y(y, height, vals[Len(vals)], max_val)
    IN  <<draw_rectangle("background", x, y, x + width, y + height, 1)>>
        \o [j \in 1..Len(range_step(height, 20)) |->
              draw_line("grid", x, y + range_step(height, 20)[j], x + width,
                        y + range_step(height, 20)[j], 1)]
        \o <<draw_line("axis", x, y + height, x + width, y + height, 2),
             draw_line("axis", x, y, x, y + height, 2)>>
        \o (IF Len(vals) > 0
              THEN <<draw_rectangle("latest", x + width - 2, new_y - 2,
                                    x + width + 2, new_y + 2, 1)>>
              ELSE <<>>)

draw_graph(x, y, width, height, data, max_val) ==
    IF Len(data) < 2
      THEN <<>>
      ELSE LET vals == data
               new_x == x + width
               new_y == point_y(y, height, vals[Len(vals)], max_val)
           IN  <<draw_rectangle("background", x, y, x + width, y + height, 1)>>
               \o [j \in 1..Len(range_step(height, 20)) |->
                     draw_line("grid", x, y + range_step(height, 20)[j], x + width,
                               y + range_step(height, 20)[j], 1)]
               \o <<draw_line("axis", x, y + height, x + width, y + height, 2),
                    draw_line("axis", x, y, x, y + height, 2)>>
               \o Flatten([j \in 1..(Len(vals) - 1) |->
                     draw_graph_segment(x, y, width, height, vals, max_val, j - 1)])
               \o (IF Len(vals) > 0 /\ new_x >= x /\ new_x <= x + width
                     THEN <<draw_rectangle("latest", new_x - 2, new_y - 2,
                                           new_x + 2, new_y + 2, 1)>>
                     ELSE <<>>)

(* premium lines 169-189 and 237-257: background, top shading, grid, axes
   and axis glow, common to both area graphs *)
area_graph_frame(x, y, width, height) ==
    <<draw_rectangle("background", x, y, x + width, y + height, 1)>>
    \o [i \in 1..Min(height \div 4, height) |->
          draw_line("shade", x, y + i - 1, x + width, y + i - 1, 1)]
    \o [j \in 1..Len(range_step(height, 10)) |->
          draw_line("grid", x, y + range_step(height, 10)[j], x + width,
                    y + range_step(height, 10)[j], 1)]
    \o <<draw_line("axis", x, y + height, x + width, y + height, 3),
         draw_line("axis", x, y, x, y + height, 3),
         draw_line("glow", x + 1, y + height + 1, x + width, y + height + 1, 1),
         draw_line("glow", x + 1, y + 1, x + 1, y + height, 1)>>

(* range(int(top), int(y + height)): one horizontal line per pixel row *)
area_fill(x1, x2, top, bottom) ==
    IF top >= bottom THEN <<>>
    ELSE [r \in 1..(bottom - top) |-> draw_line("fill", x1, top + r - 1, x2, top + r - 1, 1)]

(* premium draw_smooth_area_graph, lines 163-229; counter is
   self.animation_counter *)
draw_smooth_area_graph(x, y, width, height, data, max_val, counter) ==
    IF Len(data) < 2
      THEN <<>>
      ELSE LET vals == data
               n == Len(vals)
               px(i) == point_x(x, width, n, i)
               py(i) == point_y(y, height, vals[i + 1], max_val)
               glow == 4 + (counter % 5)
               new_x2n == 2 * n * (x + width) - width
               new_y == point_y(y, height, vals[n], max_val)
               box(what, d) ==
                   draw_rectangle(what, new_x2n - 2 * n * d, 2 * n * (new_y - d),
                                  new_x2n + 2 * n * d, 2 * n * (new_y + d), 2 * n)
           IN  area_graph_frame(x, y, width, height)
               \o Flatten([i \in 1..(n - 1) |->
                     <<draw_line("segment", px(i - 1), py(i - 1), px(i), py(i), 3)>>
                     \o area_fill(px(i - 1), px(i), py(i - 1), y + height)])
               \o [r \in 1..glow |-> box("ring", (glow - r + 1) + 1)]
               \o <<box("latest", 4), box("latest", 3)>>

(* premium draw_filled_area_graph, lines 231-286 *)
draw_filled_area_graph(x, y, width, height, data, max_val) ==
    IF Len(data) < 2
      THEN <<>>
      ELSE LET vals == data
               n == Len(vals)
               px(i) == point_x(x, width, n, i)
               py(i) == point_y(y, height, vals[i + 1], max_val)
               last3 == SubSeq(vals, IF n > 3 THEN n - 2 ELSE 1, n)
               marker(i) ==
                   LET x2n == 2 * n * (x + width) - width - 2 * i * width
                       y1 == point_y(y, height, last3[i + 1], max_val)
                   IN  IF x2n > 2 * n * x
                         THEN <<draw_rectangle("point", x2n - 4 * n, 2 * n * (y1 - 2),
                                               x2n + 4 * n, 2 * n * (y1 + 2), 2 * n)>>
                         ELSE <<>>
           IN  area_graph_frame(x, y, width, height)
               \o Flatten([i \in 1..(n - 1) |->
                     <<draw_line("segment", px(i - 1), py(i - 1), px(i), py(i), 3)>>
                     \o area_fill(px(i - 1), px(i), py(i - 1), y + height)])
               \o Flatten([i \in 1..Len(last3) |-> marker(i - 1)])

(* mutant: the bar chart asks for two samples as the line and area routines do *)
draw_bar_chart_two_samples(x, y, width, height, data, max_val) ==
    IF Len(data) < 2 THEN <<>> ELSE area_graph_frame(x, y, width, height)

(* premium draw_bar_chart, lines 349-402: the frame of the area graphs
   (lines 357-375), then for each sample its shadow, its bar, the highlight
   lines of the bar's upper third and the line above the bar *)
draw_bar_chart(x, y, width, height, data, max_val) ==
    IF Len(data) < 1
      THEN <<>>
      ELSE LET vals == data
               n == Len(vals)
               bar_width == width \div n
               bar(i) ==
                   LET bar_x == point_x(x, width, n, i)
                       bar_height == (vals[i + 1] * height) \div max_val
                       bar_y == y + height - bar_height
                   IN  <<draw_rectangle("shadow", bar_x + 2, bar_y + 1,
                                        bar_x + bar_width - 2, y + height + 1, 1),
                         draw_rectangle("bar", bar_x + 2, bar_y,
                                        bar_x + bar_width - 2, y + height, 1)>>
                       \o [h \in 1..(bar_height \div 3) |->
                             draw_line("highlight", bar_x + 3, bar_y + h - 1,
                                       bar_x + bar_width - 3, bar_y + h - 1, 1)]
                       \o <<draw_line("top", bar_x + 2, bar_y - 1,
                                      bar_x + bar_width - 2, bar_y - 1, 1)>>
           IN  area_graph_frame(x, y, width, height)
               \o Flatten([i \in 1..n |-> bar(i - 1)])

(* the graph call of the page rendered: render_animated_page lines 256-260,
   draw_premium_stat_page (premium lines 577-593); gauge and info pages
   call none of the four routines *)
page_graph(d, page, h, counter) ==
    LET p == pages_of(d)[page + 1]
    IN  IF d = "carousel"
          THEN draw_graph(15, 160, WIDTH - 30, 110, h[p.stat_key], p.max_val)
          ELSE CASE p.graph_type = "filled_area" ->
                      draw_filled_area_graph(10, 148, WIDTH - 20, 122, h[p.stat_key],
                                             p.max_val)
                 [] p.graph_type = "smooth_area" ->
                      draw_smooth_area_graph(10, 148, WIDTH - 20, 122, h[p.stat_key],
                                             p.max_val, counter)
                 [] p.graph_type = "bars" ->
                      draw_bar_chart(10, 148, WIDTH - 20, 122, h[p.stat_key], p.max_val)
                 [] OTHER -> <<>>

(* A graph routine called on its own.  The four routines, the region each
   is given by its page renderer (carousel lines 256-260, premium lines
   580-593) and the number of samples below which each returns at once
   (carousel line 101, premium lines 165, 233 and 351). *)
GraphStyles == {"line", "smooth_area", "filled_area", "bars"}

graph_region(style) ==
    IF style = "line"
      THEN [x |-> 15, y |-> 160, width |-> WIDTH - 30, height |-> 110]
      ELSE [x |-> 10, y |-> 148, width |-> WIDTH - 20, height |-> 122]

samples_needed(style) == IF style = "bars" THEN 1 ELSE 2

(* carousel draw_graph, lines 107-118: background, grid and axes *)
line_graph_frame(x, y, width, height) ==
    <<draw_rectangle("background", x, y, x + width, y + height, 1)>>
    \o [j \in 1..Len(range_step(height, 20)) |->
          draw_line("grid", x, y + range_step(height, 20)[j], x + width,
                    y + range_step(height, 20)[j], 1)]
    \o <<draw_line("axis", x, y + height, x + width, y + height, 2),
         draw_line("axis", x, y, x, y + height, 2)>>

(* value / max_val with max_val 0 raises ZeroDivisionError: in each routine
   the first division (carousel line 125, premium lines 197, 264 and 381) is
   in the first pass of the loop over the samples, after the frame is drawn;
   no routine tests max_val *)
ZeroDivisionError(style, data, max_val) ==
    max_val = 0 /\ Len(data) >= samples_needed(style)

(* what a call of the routine does: the draw calls it makes, and whether an
   exception leaves it *)
graph_routine(style, data, max_val, counter) ==
    LET r == graph_region(style)
    IN  IF ZeroDivisionError(style, data, max_val)
          THEN [raised |-> TRUE,
                calls |-> IF style = "line"
                            THEN line_graph_frame(r.x, r.y, r.width, r.height)
                            ELSE area_graph_frame(r.x, r.y, r.width, r.height)]
          ELSE [raised |-> FALSE,
                calls |->
                  CASE style = "line" ->
                         draw_graph(r.x, r.y, r.width, r.height, data, max_val)
                    [] style = "smooth_area" ->
                         draw_smooth_area_graph(r.x, r.y, r.width, r.height, data,
                                                max_val, counter)
                    [] style = "filled_area" ->
                         draw_filled_area_graph(r.x, r.y, r.width, r.height, data,
                                                max_val)
                    [] style = "bars" ->
                         draw_bar_chart(r.x, r.y, r.width, r.height, data, max_val)]

(* update_page, lines 205-208 *)
page_due(t, start, dur) == t - start >= dur * 1000

(* mutant: the index is not wrapped *)
next_page_nowrap(p, d) == p + 1

next_page(p, d) == (p + 1) % Len(pages_of(d))

----------------------------------------------------------------------------
(* What the collectors' sources hold in one update step.  The main         *)
(* specification replays one of three cpu reading streams; the history     *)
(* specification one of MaxSeed + 1 streams whose samples are distinct     *)
(* over any 101 consecutive steps, so that order and eviction are visible;  *)
(* the collector specification breaks any subset of the collectors.         *)
CpuReadings == {10, 50, 90}

RawReadings(c) ==
    [cpu |-> c, memory |-> 41, cpu_temp |-> 55, gpu_temp |-> 48,
     disk |-> [percent |-> 63, used |-> 18, total |-> 29],
     uptime |-> "3h 7m", ip |-> "192.168.1.20", hostname |-> "raspberrypi"]

(* the main loop's update step n (from 0) under reading stream sd: the cpu
   reading cycles through 10, 50, 90 from the stream's starting point *)
CpuCycle == <<10, 50, 90>>

LoopSnapshot(sd, n) ==
    [raw |-> RawReadings(CpuCycle[((sd + n) % Len(CpuCycle)) + 1]), broken |-> {}]

FailingSnapshots ==
    { [raw |-> RawReadings(c), broken |-> b] :
      c \in CpuReadings, b \in SUBSET {Collectors[i] : i \in 1..Len(Collectors)} }

KeyOffset(k) ==
    CASE k = "cpu" -> 0 [] k = "memory" -> 7 [] k = "cpu_temp" -> 19
      [] k = "gpu_temp" -> 31 [] k = "disk" -> 53

StreamReading(sd, k, n) == ((sd + 1) * n + KeyOffset(k)) % 101

StreamSnapshot(sd, n) ==
    [raw |-> [cpu |-> StreamReading(sd, "cpu", n),
              memory |-> StreamReading(sd, "memory", n),
              cpu_temp |-> StreamReading(sd, "cpu_temp", n),
              gpu_temp |-> StreamReading(sd, "gpu_temp", n),
              disk |-> [percent |-> StreamReading(sd, "disk", n),
                        used |-> 18, total |-> 29],
              uptime |-> "3h 7m", ip |-> "192.168.1.20",
              hostname |-> "raspberrypi"],
     broken |-> {}]

PageDurations == {1, 5}

----------------------------------------------------------------------------
(* Initial state: the process has started, nothing is constructed yet *)
InitDriver ==
    /\ gpio = [rst |-> UNSET, dc |-> UNSET, bl |-> UNSET]
    /\ spi_open = FALSE
    /\ bus = <<>>
    /\ rst_log = <<>>
    /\ panel = "UNRESET"
    /\ init_i = 1
    /\ image_len = 0
    /\ chunk_i = 0
    /\ frame_status = "none"

InitDash ==
    /\ running = TRUE
    /\ history = [k \in Keys |-> <<>>]
    /\ stats = initial_stats
    /\ pushed = [k \in Keys |-> <<>>]
    /\ values = [alias |-> NONE, items |-> <<>>]
    /\ current_page = 0
    /\ page_start_time = 0
    /\ iter = 0

InitConv ==
    /\ rgb_data = <<>>
    /\ rgb565 = <<>>

NoRender == [renderer |-> NONE, reads |-> {}, at |-> -1]

NoSignal == [iter |-> -1, pushes |-> -1]

NoCall == [style |-> NONE, data |-> <<>>, max_val |-> 100, raised |-> FALSE]

InitObs ==
    /\ update_ret = [value |-> UNSET, raised |-> FALSE]
    /\ flips = <<>>
    /\ drawn = <<>>
    /\ env = [raw |-> RawReadings(0), broken |-> {}]
    /\ rendered = NoRender
    /\ graph_call = NoCall
    /\ prev_status = "none"
    /\ signal_at = NoSignal
    /\ cleanup_log = <<>>

Init ==
    /\ pc = "gpio_setup"
    /\ now = 0
    /\ InitDriver
    /\ InitDash
    /\ InitConv
    /\ InitObs
    /\ page_duration \in PageDurations
    /\ dashboard = "carousel"
    /\ seed \in 0..(Len(CpuCycle) - 1)

----------------------------------------------------------------------------
(* ST7789Display.__init__, lines 29-46: pin setup and initial levels *)
GpioSetup ==
    /\ pc = "gpio_setup"
    /\ gpio' = [rst |-> HIGH, dc |-> LOW, bl |-> HIGH]
    /\ rst_log' = Append(rst_log, [level |-> HIGH, t |-> now, by |-> "__init__"])
    /\ pc' = "spi_open"
    /\ UNCHANGED <<now, spi_open, bus, panel, init_i, image_len, chunk_i,
                   frame_status, dashVars, seed, convVars,
                   obsVars, env>>

(* lines 49-53: open the bus *)
SpiOpen ==
    /\ pc = "spi_open"
    /\ spi_open' = TRUE
    /\ pc' = "reset_high"
    /\ UNCHANGED <<now, gpio, bus, rst_log, panel, init_i, image_len, chunk_i,
                   frame_status, dashVars, seed, convVars,
                   obsVars, env>>

(* spi.open raises: the exception leaves __init__ and main *)
SpiOpenFails ==
    /\ pc = "spi_open"
    /\ pc' = "crashed"
    /\ UNCHANGED <<now, driverVars, dashVars, seed, convVars,
                   obsVars, env>>

(* _reset, lines 80-85: one output on the reset line, then its sleep (ms) *)
reset_output(level, ms, at, next, nextPanel) ==
    /\ pc = at
    /\ gpio' = GpioOutput(gpio, "rst", level)
    /\ rst_log' = Append(rst_log, [level |-> level, t |-> now, by |-> "_reset"])
    /\ now' = now + ms
    /\ pc' = next
    /\ panel' = nextPanel
    /\ UNCHANGED <<spi_open, bus, init_i, image_len, chunk_i, frame_status,
                   dashVars, seed, convVars,
                   obsVars, env>>

(* mutant: the low pulse is held for 10 ms only *)
ResetLowShort == reset_output(LOW, 10, "reset_low", "reset_release", "RESETTING")

ResetHigh == reset_output(HIGH, 100, "reset_high", "reset_low", "RESETTING")

ResetLow == reset_output(LOW, 100, "reset_low", "reset_release", "RESETTING")

ResetRelease == reset_output(HIGH, 100, "reset_release", "init_cmd", "INITIALIZING")

(* mutant: the settle delay is skipped *)
init_delay_none(e) == 0

(* _init_display, lines 115-121: after an entry's writes, its delay, then
   the next entry or the end of the table *)
init_delay(e) == e.delay

(* mutant: the loop leaves the table one entry early *)
init_advance_early(e) ==
    /\ now' = now + init_delay(e)
    /\ init_i' = init_i + 1
    /\ IF init_i >= Len(init_sequence) - 1
         THEN pc' = "init_done" /\ panel' = "READY"
         ELSE pc' = "init_cmd" /\ panel' = panel

init_advance(e) ==
    /\ now' = now + init_delay(e)
    /\ init_i' = init_i + 1
    /\ IF init_i = Len(init_sequence)
         THEN pc' = "init_done" /\ panel' = "READY"
         ELSE pc' = "init_cmd" /\ panel' = panel

(* lines 116-119: the entry's command byte *)
InitCommand ==
    /\ pc = "init_cmd"
    /\ LET e == init_sequence[init_i]
           w == write_command(gpio, bus, e.cmd, now)
       IN  /\ gpio' = w.gpio
           /\ bus' = w.bus
           /\ IF e.data # <<>>
                THEN /\ pc' = "init_data"
                     /\ UNCHANGED <<now, init_i, panel>>
                ELSE init_advance(e)
    /\ UNCHANGED <<spi_open, rst_log, image_len, chunk_i, frame_status,
                   dashVars, seed, convVars,
                   obsVars, env>>

(* lines 100-101: the entry's payload *)
InitData ==
    /\ pc = "init_data"
    /\ LET e == init_sequence[init_i]
           w == write_data(gpio, bus, e.data, now)
       IN  /\ gpio' = w.gpio
           /\ bus' = w.bus
           /\ init_advance(e)
    /\ UNCHANGED <<spi_open, rst_log, image_len, chunk_i, frame_status,
                   dashVars, seed, convVars,
                   obsVars, env>>

(* spi.writebytes raises inside the constructor: nothing catches it *)
InitBusError ==
    /\ pc \in {"init_cmd", "init_data"}
    /\ gpio' = IF pc = "init_cmd" THEN write_command_select(gpio)
                                  ELSE write_data_select(gpio)
    /\ pc' = "crashed"
    /\ UNCHANGED <<now, spi_open, bus, rst_log, panel, init_i, image_len,
                   chunk_i, frame_status, dashVars, seed, convVars,
                   obsVars, env>>

(* ST7789Display.__init__ lines 59-76 and CarouselDashboard.__init__
   lines 30-69: buffers, rings, page state, signal handlers *)
DashboardInit ==
    /\ pc = "init_done"
    /\ running' = TRUE
    /\ history' = [k \in Keys |-> <<>>]
    /\ stats' = initial_stats
    /\ current_page' = 0
    /\ page_start_time' = now
    /\ pc' = "loop_top"
    /\ UNCHANGED <<now, driverVars, pushed, values, page_duration, dashboard, iter, seed,
                   convVars,
                   obsVars, env>>

----------------------------------------------------------------------------
(* mutant: while True, the flag is never read *)
LoopTestIgnoresFlag ==
    /\ pc = "loop_top"
    /\ iter < MaxIter
    /\ pc' = "update_stats"
    /\ UNCHANGED <<now, driverVars, dashVars, seed, convVars, obsVars, env>>

(* CarouselDashboard.run, line 272: the loop test *)
LoopTest ==
    /\ pc = "loop_top"
    /\ IF running
         THEN iter < MaxIter /\ pc' = "update_stats"
         ELSE pc' = "cleanup"
    /\ UNCHANGED <<now, driverVars, dashVars, seed, convVars,
                   obsVars, env>>

(* update_stats, lines 76-97, in a given state of the collectors' sources *)
update_stats_call(e) ==
    LET calls == update_stats_calls(e)
        st == update_stats_stats(stats, calls)
    IN  /\ env' = e
        /\ stats' = st
        /\ history' = update_stats_history(history, st, calls)
        /\ pushed' = [k \in Keys |->
                        IF update_stats_raised_at(calls) <= Len(Collectors)
                          THEN pushed[k] ELSE Append(pushed[k], st[k])]

UpdateStats ==
    /\ pc = "update_stats"
    /\ update_stats_call(LoopSnapshot(seed, iter))
    /\ pc' = "render"
    /\ UNCHANGED <<now, driverVars, running, values, current_page,
                   page_start_time, page_duration, dashboard, iter, seed, convVars,
                   obsVars>>

(* render_animated_page, lines 210-260: draw the current page; draw_graph
   takes its list from the page's ring *)
RenderPage ==
    /\ pc = "render"
    /\ dashboard = "carousel"
    /\ values' = draw_graph_values(pages[current_page + 1].stat_key, history, values)
    /\ drawn' = page_graph(dashboard, current_page, history, iter)
    /\ rendered' = [renderer |-> "render_animated_page",
                    reads |-> {pages[current_page + 1].stat_key}, at |-> iter]
    /\ pc' = "update"
    /\ UNCHANGED <<now, driverVars, running, history, stats, pushed, current_page,
                   page_start_time, page_duration, dashboard, iter, seed, convVars,
                   update_ret, flips, env, graph_call, prev_status, signal_at, cleanup_log>>

(* update, lines 173-182: the method has no return statement, and its
   except clause ends the exception; either way the caller gets None *)
update_returns == [value |-> NONE, raised |-> FALSE]

update_catches == [value |-> NONE, raised |-> FALSE]

(* update, lines 175-180: convert the buffer, enter _send_image_data *)
UpdateBegin ==
    /\ pc = "update"
    /\ image_len' = rgb565_len(image_bytes_len)
    /\ bus' = <<>>
    /\ frame_status' = "sending"
    /\ panel' = "ADDRESSING"
    /\ prev_status' = frame_status
    /\ pc' = "send_2A"
    /\ UNCHANGED <<now, gpio, spi_open, rst_log, init_i, chunk_i, dashVars, seed,
                   convVars, update_ret, flips, drawn, env, rendered, graph_call, signal_at, cleanup_log>>

(* _send_image_data, lines 203-209: one bus write each *)
send_command(at, cmd, next, nextPanel) ==
    /\ pc = at
    /\ LET w == write_command(gpio, bus, cmd, now)
       IN  /\ gpio' = w.gpio
           /\ bus' = w.bus
    /\ pc' = next
    /\ panel' = nextPanel
    /\ UNCHANGED <<now, spi_open, rst_log, init_i, image_len, chunk_i,
                   frame_status, dashVars, seed, convVars,
                   obsVars, env>>

send_payload(at, data, next) ==
    /\ pc = at
    /\ LET w == write_data(gpio, bus, data, now)
       IN  /\ gpio' = w.gpio
           /\ bus' = w.bus
    /\ pc' = next
    /\ UNCHANGED <<now, spi_open, rst_log, panel, init_i, image_len, chunk_i,
                   frame_status, dashVars, seed, convVars,
                   obsVars, env>>

SendColumnCommand == send_command("send_2A", 42, "send_2A_data", "ADDRESSING")

SendColumnData == send_payload("send_2A_data", column_address, "send_2B")

SendRowCommand == send_command("send_2B", 43, "send_2B_data", "ADDRESSING")

SendRowData == send_payload("send_2B_data", row_address, "send_2C")

(* mutant: the chunk loop goes on from the offset the last transfer reached *)
SendMemoryWriteResumes ==
    /\ pc = "send_2C"
    /\ LET w == write_command(gpio, bus, 44, now)
       IN  /\ gpio' = send_data_select(w.gpio)
           /\ bus' = w.bus
    /\ chunk_i' = IF frame_status = "sending" /\ prev_status = "dropped"
                    THEN chunk_i ELSE 0
    /\ pc' = "send_chunk"
    /\ panel' = "WRITING"
    /\ UNCHANGED <<now, spi_open, rst_log, init_i, image_len, frame_status,
                   dashVars, seed, convVars,
                   obsVars, env>>

(* lines 209-214: memory write, then data mode and the chunk loop's start *)
SendMemoryWrite ==
    /\ pc = "send_2C"
    /\ LET w == write_command(gpio, bus, 44, now)
       IN  /\ gpio' = send_data_select(w.gpio)
           /\ bus' = w.bus
    /\ chunk_i' = 0
    /\ pc' = "send_chunk"
    /\ panel' = "WRITING"
    /\ UNCHANGED <<now, spi_open, rst_log, init_i, image_len, frame_status,
                   dashVars, seed, convVars,
                   obsVars, env>>

(* lines 214-216: one pass of the chunk loop *)
SendChunk ==
    /\ pc = "send_chunk"
    /\ chunk_i < image_len
    /\ LET c == chunk_slice(image_len, chunk_i)
       IN  bus' = Append(bus, BusEntry("pixels", <<>>, c.lo, c.hi, gpio, now))
    /\ chunk_i' = chunk_next(chunk_i)
    /\ UNCHANGED <<pc, now, gpio, spi_open, rst_log, panel, init_i, image_len,
                   frame_status, dashVars, seed, convVars,
                   obsVars, env>>

(* the range is exhausted: _send_image_data and update return *)
SendDone ==
    /\ pc = "send_chunk"
    /\ chunk_i >= image_len
    /\ frame_status' = "sent"
    /\ panel' = "READY"
    /\ update_ret' = update_returns
    /\ pc' = "update_page"
    /\ UNCHANGED <<now, gpio, spi_open, bus, rst_log, init_i, image_len, chunk_i,
                   dashVars, seed, convVars, flips, drawn, env, callVars>>

(* mutant: update has no try/except; the exception reaches run's handler,
   which ends the loop *)
SendBusErrorRaises ==
    /\ \/ pc \in {"send_2A", "send_2B", "send_2C"} /\ gpio' = write_command_select(gpio)
       \/ pc \in {"send_2A_data", "send_2B_data"} /\ gpio' = write_data_select(gpio)
       \/ pc = "send_chunk" /\ chunk_i < image_len /\ gpio' = gpio
    /\ frame_status' = "dropped"
    /\ panel' = "READY"
    /\ update_ret' = [value |-> UNSET, raised |-> TRUE]
    /\ pc' = "cleanup"
    /\ UNCHANGED <<now, spi_open, bus, rst_log, init_i, image_len, chunk_i,
                   dashVars, seed, convVars, flips, drawn, env, callVars>>

(* spi.writebytes raises inside update: lines 181-182 catch it and print *)
SendBusError ==
    /\ \/ pc \in {"send_2A", "send_2B", "send_2C"} /\ gpio' = write_command_select(gpio)
       \/ pc \in {"send_2A_data", "send_2B_data"} /\ gpio' = write_data_select(gpio)
       \/ pc = "send_chunk" /\ chunk_i < image_len /\ gpio' = gpio
    /\ frame_status' = "dropped"
    /\ panel' = "READY"
    /\ update_ret' = update_catches
    /\ pc' = "update_page"
    /\ UNCHANGED <<now, spi_open, bus, rst_log, init_i, image_len, chunk_i,
                   dashVars, seed, convVars, flips, drawn, env, callVars>>

(* update_page, lines 203-208 *)
UpdatePage ==
    /\ pc = "update_page"
    /\ IF page_due(now, page_start_time, page_duration)
         THEN /\ current_page' = next_page(current_page, dashboard)
              /\ page_start_time' = now
              /\ flips' = Append(flips, now)
         ELSE UNCHANGED <<current_page, page_start_time, flips>>
    /\ pc' = "sleep"
    /\ UNCHANGED <<now, driverVars, running, history, stats, pushed, values,
                   page_duration, dashboard, iter, seed, convVars, update_ret, drawn, env, callVars>>

(* mutant: after the sleep the frame is sent again, without a new snapshot
   and without redrawing the page *)
SleepThenResend ==
    /\ pc = "sleep"
    /\ iter < MaxIter
    /\ now' = now + update_interval * 1000
    /\ iter' = iter + 1
    /\ pc' = "update"
    /\ UNCHANGED <<driverVars, running, history, stats, pushed, values,
                   current_page, page_start_time, page_duration, dashboard, seed, convVars,
                   obsVars, env>>

(* run, line 284: time.sleep(update_interval) *)
Sleep ==
    /\ pc = "sleep"
    /\ now' = now + update_interval * 1000
    /\ iter' = iter + 1
    /\ pc' = "loop_top"
    /\ UNCHANGED <<driverVars, running, history, stats, pushed, values,
                   current_page, page_start_time, page_duration, dashboard, seed, convVars,
                   obsVars, env>>

(* signal_handler, lines 71-74: SIGINT or SIGTERM, between any two steps of
   the loop *)
LoopPcs == {"loop_top", "update_stats", "render", "update", "send_2A",
            "send_2A_data", "send_2B", "send_2B_data", "send_2C", "send_chunk",
            "update_page", "sleep"}

(* mutant: the default disposition of SIGINT, KeyboardInterrupt raised in the
   main thread, which run's except clause turns into the way out *)
SignalInterrupts ==
    /\ pc \in LoopPcs
    /\ running
    /\ running' = FALSE
    /\ signal_at' = [iter |-> iter, pushes |-> Len(pushed["cpu"])]
    /\ pc' = "cleanup"
    /\ UNCHANGED <<now, driverVars, history, stats, pushed, values,
                   current_page, page_start_time, page_duration, dashboard, iter, seed,
                   convVars, update_ret, flips, drawn, env, rendered, graph_call,
                   prev_status, cleanup_log>>

Signal ==
    /\ pc \in LoopPcs
    /\ running
    /\ running' = FALSE
    /\ signal_at' = [iter |-> iter, pushes |-> Len(pushed["cpu"])]
    /\ UNCHANGED <<pc, now, driverVars, history, stats, pushed, values,
                   current_page, page_start_time, page_duration, dashboard, iter, seed,
                   convVars, update_ret, flips, drawn, env, rendered, graph_call,
                   prev_status, cleanup_log>>

(* mutant: the exception is swallowed where it is raised and the loop goes on *)
RenderRaisesSwallowed ==
    /\ pc = "render"
    /\ pc' = "update_page"
    /\ UNCHANGED <<now, driverVars, dashVars, seed, convVars, obsVars, env>>

(* render_animated_page raises (drawing, formatting): run's except
   Exception, lines 288-291, prints the traceback; its finally cleans up *)
RenderRaises ==
    /\ pc = "render"
    /\ pc' = "cleanup"
    /\ UNCHANGED <<now, driverVars, dashVars, seed, convVars, obsVars, env>>

(* cleanup, line 220, from run's finally: backlight off *)
(* mutant: the two statements of cleanup in the other order *)
CleanupReleaseFirst ==
    /\ pc = "cleanup"
    /\ gpio' = [rst |-> UNSET, dc |-> UNSET, bl |-> UNSET]
    /\ cleanup_log' = Append(cleanup_log, "GPIO.cleanup")
    /\ pc' = "cleanup_gpio"
    /\ UNCHANGED <<now, spi_open, bus, rst_log, panel, init_i, image_len, chunk_i,
                   frame_status, dashVars, seed, convVars, update_ret, flips, drawn,
                   rendered, graph_call, prev_status, signal_at, env>>

CleanupBacklight ==
    /\ pc = "cleanup"
    /\ gpio' = GpioOutput(gpio, "bl", LOW)
    /\ cleanup_log' = Append(cleanup_log, "GPIO.output(BL_PIN, LOW)")
    /\ pc' = "cleanup_gpio"
    /\ UNCHANGED <<now, spi_open, bus, rst_log, panel, init_i, image_len, chunk_i,
                   frame_status, dashVars, seed, convVars, update_ret, flips, drawn,
                   rendered, graph_call, prev_status, signal_at, env>>

(* cleanup, line 221: GPIO.cleanup() returns every channel to its default;
   run returns, main returns *)
CleanupRelease ==
    /\ pc = "cleanup_gpio"
    /\ gpio' = [rst |-> UNSET, dc |-> UNSET, bl |-> UNSET]
    /\ cleanup_log' = Append(cleanup_log, "GPIO.cleanup")
    /\ pc' = "done"
    /\ UNCHANGED <<now, spi_open, bus, rst_log, panel, init_i, image_len, chunk_i,
                   frame_status, dashVars, seed, convVars, update_ret, flips, drawn,
                   rendered, graph_call, prev_status, signal_at, env>>

(* how the interpreter exits: 0 when main returns, 1 when an exception
   leaves main (lines 306-308 catch nothing); -1 while it runs *)
exit_status == CASE pc = "done" -> 0 [] pc = "crashed" -> 1 [] OTHER -> -1

Next ==
    \/ GpioSetup \/ SpiOpen \/ SpiOpenFails
    \/ ResetHigh \/ ResetLow \/ ResetRelease
    \/ InitCommand \/ InitData \/ InitBusError
    \/ DashboardInit
    \/ LoopTest \/ UpdateStats \/ RenderPage \/ RenderRaises
    \/ UpdateBegin
    \/ SendColumnCommand \/ SendColumnData \/ SendRowCommand \/ SendRowData
    \/ SendMemoryWrite \/ SendChunk \/ SendDone \/ SendBusError
    \/ UpdatePage \/ Sleep \/ Signal \/ CleanupBacklight \/ CleanupRelease

Spec == Init /\ [][Next]_vars

(* The interpreter keeps executing the thread: whenever the program has a
   next statement to run, it eventually runs one.  Signals and failures are
   the environment's and are never forced. *)
Step ==
    \/ GpioSetup \/ SpiOpen
    \/ ResetHigh \/ ResetLow \/ ResetRelease
    \/ InitCommand \/ InitData
    \/ DashboardInit
    \/ LoopTest \/ UpdateStats \/ RenderPage
    \/ UpdateBegin
    \/ SendColumnCommand \/ SendColumnData \/ SendRowCommand \/ SendRowData
    \/ SendMemoryWrite \/ SendChunk \/ SendDone
    \/ UpdatePage \/ Sleep \/ CleanupBacklight \/ CleanupRelease

(* the fair runs are explored on the first reading stream *)
InitFair == Init /\ seed = 0

SpecFair == InitFair /\ [][Next]_vars /\ WF_vars(Step)

----------------------------------------------------------------------------
(* The history ring on its own: update steps replaying a reading stream,   *)
(* and draw_graph taking its list from any ring at any time.               *)
InitHistory ==
    /\ pc = "update_stats"
    /\ now = 0
    /\ InitDriver
    /\ InitDash
    /\ InitConv
    /\ InitObs
    /\ page_duration = 5
    /\ dashboard = "carousel"
    /\ seed \in 0..MaxSeed

HistoryPush ==
    /\ pc = "update_stats"
    /\ Len(pushed["cpu"]) < MaxPushes
    /\ update_stats_call(StreamSnapshot(seed, Len(pushed["cpu"]) + 1))
    /\ UNCHANGED <<pc, now, driverVars, running, values, current_page,
                   page_start_time, page_duration, dashboard, iter, seed, convVars,
                   obsVars>>

HistoryRead ==
    /\ pc = "update_stats"
    /\ \E k \in Keys : values' = draw_graph_values(k, history, values)
    /\ UNCHANGED <<pc, now, driverVars, running, history, stats, pushed,
                   current_page, page_start_time, page_duration, dashboard, iter, seed,
                   convVars,
                   obsVars, env>>

NextHistory == HistoryPush \/ HistoryRead

SpecHistory == InitHistory /\ [][NextHistory]_vars

----------------------------------------------------------------------------
(* One update step with any subset of the collectors broken, taken after   *)
(* a number of earlier steps that filled the rings partly or wholly.       *)
PrefillLens == {0, 1, 19, 20}

RECURSIVE AfterUpdates(_, _)
AfterUpdates(sd, n) ==
    IF n = 0
      THEN [stats |-> initial_stats, history |-> [k \in Keys |-> <<>>]]
      ELSE LET p == AfterUpdates(sd, n - 1)
               calls == update_stats_calls(StreamSnapshot(sd, n))
               st == update_stats_stats(p.stats, calls)
           IN  [stats |-> st, history |-> update_stats_history(p.history, st, calls)]

InitCollect ==
    /\ pc = "update_stats"
    /\ now = 0
    /\ InitDriver
    /\ InitConv
    /\ InitObs
    /\ page_duration = 5
    /\ dashboard = "carousel"
    /\ seed \in 0..MaxSeed
    /\ running = TRUE
    /\ \E n \in PrefillLens :
         /\ stats = AfterUpdates(seed, n).stats
         /\ history = AfterUpdates(seed, n).history
         /\ pushed = AfterUpdates(seed, n).history
    /\ values = [alias |-> NONE, items |-> <<>>]
    /\ current_page = 0
    /\ page_start_time = 0
    /\ iter = 0

CollectStep ==
    /\ pc = "update_stats"
    /\ \E e \in FailingSnapshots : update_stats_call(e)
    /\ pc' = "render"
    /\ UNCHANGED <<now, driverVars, running, values, current_page,
                   page_start_time, page_duration, dashboard, iter, seed, convVars,
                   obsVars>>

NextCollect == CollectStep

SpecCollect == InitCollect /\ [][NextCollect]_vars

----------------------------------------------------------------------------
(* The page sequencer of either dashboard under the tick schedules of the  *)
(* main loop: update_page, the sleep of update_interval, then the time the *)
(* next iteration's collecting, drawing and frame transfer take before     *)
(* update_page is called again.  WorkMs holds the simulated clock's ideal  *)
(* (no time at all) and a tenth of a second.                               *)
WorkMs == {0, 100}

InitPages ==
    /\ pc = "update_page"
    /\ now \in WorkMs
    /\ InitDriver
    /\ InitConv
    /\ InitObs
    /\ page_duration \in PageDurations
    /\ dashboard \in {"carousel", "premium"}
    /\ seed = 0
    /\ running = TRUE
    /\ history = [k \in Keys |-> <<>>]
    /\ stats = initial_stats
    /\ pushed = [k \in Keys |-> <<>>]
    /\ values = [alias |-> NONE, items |-> <<>>]
    /\ current_page = 0
    /\ page_start_time = 0
    /\ iter = 0

(* run, lines 273-279 of the next iteration, as far as the clock goes *)
LoopWork ==
    /\ pc = "loop_top"
    /\ iter < MaxTicks
    /\ \E w \in WorkMs : now' = now + w
    /\ pc' = "update_page"
    /\ UNCHANGED <<driverVars, dashVars, seed, convVars, obsVars, env>>

NextPages == UpdatePage \/ Sleep \/ LoopWork

SpecPages == InitPages /\ [][NextPages]_vars

----------------------------------------------------------------------------
(* The graph routines on their own: one render of a line or area page of   *)
(* either dashboard, on rings holding 0..MaxSamples samples.               *)
SampleVals == {0, 50, 100}

GraphPages ==
    { <<"carousel", p>> : p \in 0..(Len(pages) - 1) }
    \cup { <<"premium", p - 1>> : p \in { q \in 1..Len(premium_pages) :
             /\ premium_pages[q].graph_type \in {"smooth_area", "filled_area"}
             /\ premium_pages[q].stat_key \in Keys } }

InitGraph ==
    /\ pc = "render"
    /\ now = 0
    /\ InitDriver
    /\ InitConv
    /\ InitObs
    /\ page_duration = 5
    /\ \E gp \in GraphPages : dashboard = gp[1] /\ current_page = gp[2]
    /\ seed = 0
    /\ running = TRUE
    /\ \E n \in 0..MaxSamples : \E data \in [1..n -> SampleVals] :
         /\ history = [k \in Keys |-> data]
         /\ pushed = [k \in Keys |-> data]
    /\ stats = initial_stats
    /\ values = [alias |-> NONE, items |-> <<>>]
    /\ page_start_time = 0
    /\ iter \in 0..1

(* mutant: every page goes to the stat page renderer *)
premium_dispatch_all_stat(p) == "draw_premium_stat_page"

(* PremiumDashboard.run, premium lines 641-647: info pages have their own
   renderer *)
premium_dispatch(p) ==
    IF p.graph_type = "info" THEN "draw_info_page" ELSE "draw_premium_stat_page"

(* the rings a renderer indexes: draw_premium_stat_page takes
   self.history[stat_key] for its graph (lines 586-593) and for its trend
   mark (line 596); draw_info_page (lines 404-523) reads self.stats only *)
render_reads(renderer, p) ==
    IF renderer = "draw_info_page" THEN {} ELSE {p.stat_key}

(* PremiumDashboard.run, premium lines 640-648: draw the current page; the
   area and bar routines take their list from the page's ring.  Indexing
   self.history with a key that has no ring raises KeyError, which run's
   except Exception catches *)
PremiumRenderPage ==
    /\ pc = "render"
    /\ dashboard = "premium"
    /\ LET p == premium_pages[current_page + 1]
           renderer == premium_dispatch(p)
           reads == render_reads(renderer, p)
       IN  /\ rendered' = [renderer |-> renderer, reads |-> reads, at |-> iter]
           /\ IF reads \subseteq DOMAIN history
                THEN /\ values' =
                          CASE p.graph_type \in {"smooth_area", "filled_area"} ->
                                 draw_graph_values(p.stat_key, history, values)
                            [] p.graph_type = "bars" /\ Len(history[p.stat_key]) >= 1 ->
                                 list_of(p.stat_key, history)
                            [] OTHER -> values
                     /\ drawn' = page_graph(dashboard, current_page, history, iter)
                     /\ pc' = "update"
                ELSE /\ UNCHANGED <<values, drawn>>
                     /\ pc' = "cleanup"
    /\ UNCHANGED <<now, driverVars, running, history, stats, pushed, current_page,
                   page_start_time, page_duration, dashboard, iter, seed, convVars,
                   update_ret, flips, env, graph_call, prev_status, signal_at, cleanup_log>>

NextGraph == RenderPage \/ PremiumRenderPage

SpecGraph == InitGraph /\ [][NextGraph]_vars

----------------------------------------------------------------------------
(* The premium dashboard run as a whole: the driver's constructor, the     *)
(* dashboard's, and its main loop with the seven rings and the nine pages. *)

(* PremiumDashboard.__init__, lines 83-91: the keys of self.history *)
premium_rings == Keys \cup {"load", "network"}

(* PremiumDashboard.__init__, lines 94-100 *)
premium_initial_stats ==
    [cpu |-> 0, memory |-> 0, cpu_temp |-> 0, gpu_temp |-> 0, disk |-> 0,
     uptime |-> "0m", ip |-> "N/A", hostname |-> "RPi5", load |-> 0, network |-> 0,
     connections |-> [established |-> 0, listening |-> 0, total |-> 0],
     nas |-> [total |-> 0, used |-> 0, free |-> 0, percent |-> 0]]

(* the sources at the premium loop's update step n (from 0): the cpu stream
   of the main specification, a load average of whole numbers (which
   round(load[0], 2) leaves as they are), interface counters that grow by
   whole megabytes, a few sockets and a mounted share *)
PremiumSnapshot(n) ==
    [raw |-> RawReadings(CpuCycle[(n % Len(CpuCycle)) + 1]) @@
             [load |-> n % 4,
              net |-> [bytes_sent |-> 400000000 + n * 1000000,
                       bytes_recv |-> 800000000 + n * 2000000],
              connections |-> [established |-> 3, listening |-> 5, total |-> 11],
              nas |-> [total |-> 1800, used |-> 600, free |-> 1200, percent |-> 33]],
     broken |-> {}]

(* get_load_average, premium lines 26-32 *)
get_load_average(e) == Returns(IF "load" \in e.broken THEN 0 ELSE e.raw.load)

(* update_stats, premium lines 140-144: the counters in megabytes, 0 when
   psutil raises *)
network_megabytes(e) ==
    Returns(IF "network" \in e.broken THEN 0
            ELSE (e.raw.net.bytes_sent + e.raw.net.bytes_recv) \div 1000000)

(* get_network_connections, premium lines 35-43 *)
get_network_connections(e) ==
    Returns(IF "connections" \in e.broken
              THEN [established |-> 0, listening |-> 0, total |-> 0]
              ELSE e.raw.connections)

(* get_nas_storage, premium lines 46-56 *)
get_nas_storage(e) ==
    Returns(IF "nas" \in e.broken
              THEN [total |-> 0, used |-> 0, free |-> 0, percent |-> 0]
              ELSE e.raw.nas)

(* update_stats, premium lines 129-150: the try body's calls in order *)
PremiumCollectors == Collectors \o <<"load", "network", "connections", "nas">>

premium_update_stats_calls(e) ==
    update_stats_calls(e) @@
    [load |-> get_load_average(e), network |-> network_megabytes(e),
     connections |-> get_network_connections(e), nas |-> get_nas_storage(e)]

(* the first call of the try body that raises, or past the last *)
premium_update_stats_raised_at(calls) ==
    IF \E i \in 1..Len(PremiumCollectors) : calls[PremiumCollectors[i]].raised
      THEN CHOOSE i \in 1..Len(PremiumCollectors) :
             /\ calls[PremiumCollectors[i]].raised
             /\ \A j \in 1..(i - 1) : ~calls[PremiumCollectors[j]].raised
      ELSE Len(PremiumCollectors) + 1

(* premium lines 129-150: the assignments made before the try body ended *)
premium_update_stats_stats(st, calls) ==
    [k \in DOMAIN st |->
       IF \E i \in 1..(premium_update_stats_raised_at(calls) - 1) :
            PremiumCollectors[i] = k
         THEN calls[k].value ELSE st[k]]

(* premium lines 153-159: the keys update_stats appends to, each a literal
   of the source *)
premium_push_keys ==
    {"cpu", "memory", "cpu_temp", "gpu_temp", "disk", "load", "network"}

(* PremiumDashboard.__init__, lines 74-119, after the driver's constructor *)
PremiumDashboardInit ==
    /\ pc = "init_done"
    /\ dashboard = "premium"
    /\ running' = TRUE
    /\ history' = [k \in premium_rings |-> <<>>]
    /\ stats' = premium_initial_stats
    /\ current_page' = 0
    /\ page_start_time' = now
    /\ pc' = "loop_top"
    /\ UNCHANGED <<now, driverVars, pushed, values, page_duration, dashboard, iter,
                   seed, convVars, obsVars, env>>

(* PremiumDashboard.run, line 637: the loop test *)
PremiumLoopTest ==
    /\ pc = "loop_top"
    /\ dashboard = "premium"
    /\ IF running
         THEN iter < MaxTicks /\ pc' = "update_stats"
         ELSE pc' = "cleanup"
    /\ UNCHANGED <<now, driverVars, dashVars, seed, convVars, obsVars, env>>

(* PremiumDashboard.update_stats, lines 126-161: appending to a key that
   has no ring raises KeyError inside the try, which ends the pushes *)
PremiumUpdateStats ==
    /\ pc = "update_stats"
    /\ dashboard = "premium"
    /\ LET e == PremiumSnapshot(iter)
           calls == premium_update_stats_calls(e)
           st == premium_update_stats_stats(stats, calls)
           ok == /\ premium_update_stats_raised_at(calls) > Len(PremiumCollectors)
                 /\ premium_push_keys \subseteq DOMAIN history
       IN  /\ env' = e
           /\ stats' = st
           /\ history' = IF ok
                           THEN [k \in DOMAIN history |->
                                   IF k \in premium_push_keys
                                     THEN deque_append(history[k], st[k])
                                     ELSE history[k]]
                           ELSE history
           /\ pushed' = IF ok
                          THEN [k \in DOMAIN pushed |->
                                  IF k \in premium_push_keys
                                    THEN Append(pushed[k], st[k]) ELSE pushed[k]]
                          ELSE pushed
    /\ pc' = "render"
    /\ UNCHANGED <<now, driverVars, running, values, current_page,
                   page_start_time, page_duration, dashboard, iter, seed, convVars,
                   obsVars>>

InitPremium ==
    /\ pc = "gpio_setup"
    /\ now = 0
    /\ InitDriver
    /\ InitConv
    /\ InitObs
    /\ page_duration \in PageDurations
    /\ dashboard = "premium"
    /\ seed = 0
    /\ running = TRUE
    /\ history = [k \in premium_rings |-> <<>>]
    /\ stats = premium_initial_stats
    /\ pushed = [k \in premium_rings |-> <<>>]
    /\ values = [alias |-> NONE, items |-> <<>>]
    /\ current_page = 0
    /\ page_start_time = 0
    /\ iter = 0

NextPremium ==
    \/ GpioSetup \/ SpiOpen
    \/ ResetHigh \/ ResetLow \/ ResetRelease
    \/ InitCommand \/ InitData
    \/ PremiumDashboardInit
    \/ PremiumLoopTest \/ PremiumUpdateStats \/ PremiumRenderPage
    \/ UpdateBegin
    \/ SendColumnCommand \/ SendColumnData \/ SendRowCommand \/ SendRowData
    \/ SendMemoryWrite \/ SendChunk \/ SendDone
    \/ UpdatePage \/ Sleep \/ Signal \/ CleanupBacklight \/ CleanupRelease

SpecPremium == InitPremium /\ [][NextPremium]_vars

----------------------------------------------------------------------------
(* The graph routines called on their own, with a ceiling that is one of   *)
(* the pages' (10, 100, 1000000) or 0, on up to MaxSamples samples that    *)
(* lie at, below and above the ceiling.                                    *)
Ceilings == {0, 10, 100, 1000000}

RasterSamples(c) ==
    IF c = 0 THEN {0, 50} ELSE {0, c \div 4, c, c + 1, (3 * c) \div 2}

InitRaster ==
    /\ pc = "graph_call"
    /\ now = 0
    /\ InitDriver
    /\ InitDash
    /\ InitConv
    /\ update_ret = [value |-> UNSET, raised |-> FALSE]
    /\ flips = <<>>
    /\ drawn = <<>>
    /\ env = [raw |-> RawReadings(0), broken |-> {}]
    /\ rendered = NoRender
    /\ prev_status = "none"
    /\ signal_at = NoSignal
    /\ cleanup_log = <<>>
    /\ page_duration = 5
    /\ dashboard = "carousel"
    /\ seed = 0
    /\ \E style \in GraphStyles, c \in Ceilings, n \in 0..MaxSamples :
         \E data \in [1..n -> RasterSamples(c)] :
           graph_call = [style |-> style, data |-> data, max_val |-> c,
                         raised |-> FALSE]

(* the call and its return or its exception *)
call_graph_routine(style) ==
    /\ pc = "graph_call"
    /\ graph_call.style = style
    /\ LET r == graph_routine(style, graph_call.data, graph_call.max_val, iter)
       IN  /\ drawn' = r.calls
           /\ graph_call' = [graph_call EXCEPT !.raised = r.raised]
    /\ pc' = "graph_return"
    /\ UNCHANGED <<now, driverVars, dashVars, seed, convVars, update_ret, flips,
                   env, rendered, prev_status, signal_at, cleanup_log>>

CallDrawGraph == call_graph_routine("line")

CallSmoothAreaGraph == call_graph_routine("smooth_area")

CallFilledAreaGraph == call_graph_routine("filled_area")

CallBarChart == call_graph_routine("bars")

NextRaster ==
    CallDrawGraph \/ CallSmoothAreaGraph \/ CallFilledAreaGraph \/ CallBarChart

SpecRaster == InitRaster /\ [][NextRaster]_vars

----------------------------------------------------------------------------
(* The colour converter on its own: every buffer of up to MaxPixels pixels *)
(* whose channels are drawn from ChannelVals, and every single pixel in    *)
(* which one channel takes any value 0..255.                               *)
ChannelVals == {0, 7, 136, 255}

SweepPixels ==
    { <<v, a, b>> : v \in 0..255, a \in ChannelVals, b \in ChannelVals }
    \cup { <<a, v, b>> : v \in 0..255, a \in ChannelVals, b \in ChannelVals }
    \cup { <<a, b, v>> : v \in 0..255, a \in ChannelVals, b \in ChannelVals }

RgbInputs ==
    SweepPixels \cup UNION { [1..(3 * n) -> ChannelVals] : n \in 0..MaxPixels }

InitConvert ==
    /\ pc = "convert"
    /\ now = 0
    /\ InitDriver
    /\ InitDash
    /\ page_duration = 5
    /\ dashboard = "carousel"
    /\ seed = 0
    /\ InitObs
    /\ rgb_data \in RgbInputs
    /\ rgb565 = <<>>

ConvertCall ==
    /\ pc = "convert"
    /\ rgb565' = convert_to_rgb565(rgb_data)
    /\ pc' = "converted"
    /\ UNCHANGED <<now, driverVars, dashVars, seed, rgb_data,
                   obsVars, env>>

NextConvert == ConvertCall

SpecConvert == InitConvert /\ [][NextConvert]_vars

----------------------------------------------------------------------------
(* _send_image_data on its own: every frame length 0..MaxFrameLen, entered *)
(* with the data/command line at either level.                             *)
InitSend ==
    /\ pc = "send_2A"
    /\ now = 0
    /\ gpio \in {[rst |-> HIGH, dc |-> d, bl |-> HIGH] : d \in {LOW, HIGH}}
    /\ spi_open = TRUE
    /\ bus = <<>>
    /\ rst_log = <<>>
    /\ panel = "ADDRESSING"
    /\ init_i = Len(init_sequence) + 1
    /\ image_len \in 0..MaxFrameLen
    /\ chunk_i = 0
    /\ frame_status = "sending"
    /\ InitDash
    /\ InitConv
    /\ InitObs
    /\ page_duration = 5
    /\ dashboard = "carousel"
    /\ seed = 0

NextSend ==
    \/ SendColumnCommand \/ SendColumnData \/ SendRowCommand \/ SendRowData
    \/ SendMemoryWrite \/ SendChunk \/ SendDone \/ SendBusError

SpecSend == InitSend /\ [][NextSend]_vars

----------------------------------------------------------------------------
(* Properties *)

LastN(sq, n) == SubSeq(sq, Len(sq) - Min(Len(sq), n) + 1, Len(sq))

(* C1: for every metric key and every sequence of update steps, the history
   ring of that key holds at most 20 samples in every reachable state. *)
C1_RingAtMostTwenty == \A k \in Keys : Len(history[k]) <= 20

(* C1 witness: more than 20 samples were pushed to a ring, which is full *)
C1_Witness == Len(pushed["cpu"]) > 20 /\ Len(history["cpu"]) = 20

(* C2: after k pushes to a key, the ring reads exactly the last min(k, 20)
   pushed samples, oldest first; a push onto a full ring evicts the oldest
   sample and no other. *)
C2_RingIsLastPushed ==
    /\ \A k \in Keys : history[k] = LastN(pushed[k], 20)
    /\ \A k \in Keys :
         /\ Len(pushed[k]) <= 20 => history[k] = pushed[k]
         /\ Len(pushed[k]) > 20 =>
              \A j \in 1..20 : history[k][j] = pushed[k][Len(pushed[k]) - 20 + j]

(* C2 witness: two samples have been evicted from a ring, one at a time *)
C2_Witness ==
    /\ Len(pushed["disk"]) = 22
    /\ history["disk"][1] = pushed["disk"][3]
    /\ history["disk"][20] = pushed["disk"][22]

(* C3: once draw_graph has taken values = list(data), a later push to the
   rings leaves that sequence unchanged in length, order and content. *)
C3_ListIsSnapshot ==
    [][ pushed' # pushed => Deref(values', history') = Deref(values, history) ]_vars

(* C3 witness: a list of at least two samples was taken and every ring has
   been pushed to since *)
C3_Witness ==
    /\ Len(Deref(values, history)) >= 2
    /\ \A k \in Keys : history[k] # Deref(values, history)
    /\ Len(pushed["cpu"]) > 21

(* C4: each pixel (r, g, b) becomes two bytes, high byte first, of
   ((r >> 3) << 11) | ((g >> 2) << 5) | (b >> 3), in pixel order; white is
   0xFFFF, black 0x0000, red 0xF800, green 0x07E0, blue 0x001F. *)
Packed565(r, g, b) == (r \div 8) * 2048 + (g \div 4) * 32 + (b \div 8)

C4_Rgb565Packing ==
    pc = "converted" =>
      /\ Len(rgb565) * 3 = Len(rgb_data) * 2
      /\ \A p \in 0..((Len(rgb_data) \div 3) - 1) :
           LET r == rgb_data[3 * p + 1]
               g == rgb_data[3 * p + 2]
               b == rgb_data[3 * p + 3]
               hi == rgb565[2 * p + 1]
               lo == rgb565[2 * p + 2]
           IN  /\ hi = Packed565(r, g, b) \div 256
               /\ lo = Packed565(r, g, b) % 256
               /\ hi \in 0..255 /\ lo \in 0..255
               /\ <<r, g, b>> = <<255, 255, 255>> => <<hi, lo>> = <<255, 255>>
               /\ <<r, g, b>> = <<0, 0, 0>> => <<hi, lo>> = <<0, 0>>
               /\ <<r, g, b>> = <<255, 0, 0>> => <<hi, lo>> = <<248, 0>>
               /\ <<r, g, b>> = <<0, 255, 0>> => <<hi, lo>> = <<7, 224>>
               /\ <<r, g, b>> = <<0, 0, 255>> => <<hi, lo>> = <<0, 31>>

(* C4 witness: a two-pixel buffer, pure green then a mixed colour, converted *)
C4_Witness ==
    /\ pc = "converted"
    /\ rgb_data = <<0, 255, 0, 136, 7, 255>>
    /\ Len(rgb565) = 4

(* What a bus write put on the wire, without its time and line level *)
Wire(e) == [kind |-> e.kind, bytes |-> e.bytes, lo |-> e.lo, hi |-> e.hi]

WireLog(b) == [i \in 1..Len(b) |-> Wire(b[i])]

IsPrefix(a, b) == Len(a) <= Len(b) /\ a = SubSeq(b, 1, Len(a))

CmdWire(c) == [kind |-> "cmd", bytes |-> <<c>>, lo |-> 0, hi |-> 0]

DataWire(d) == [kind |-> "data", bytes |-> d, lo |-> 0, hi |-> 0]

Pixels(b) == SelectSeq(b, LAMBDA e : e.kind = "pixels")

(* C5: every command byte is written while the data/command line is LOW and
   every data write (payloads and pixel chunks) while it is HIGH. *)
C5_LineSelectsMode ==
    \A i \in 1..Len(bus) :
      /\ bus[i].kind = "cmd" => bus[i].dc = "LOW"
      /\ bus[i].kind \in {"data", "pixels"} => bus[i].dc = "HIGH"

(* C5 witness: a frame in which a command followed a payload and a pixel
   chunk followed a command *)
C5_Witness ==
    /\ Len(bus) >= 7
    /\ bus[2].kind = "data" /\ bus[3].kind = "cmd"
    /\ bus[5].kind = "cmd" /\ bus[6].kind = "pixels" /\ bus[7].kind = "pixels"

(* C6: the bulk transfer writes chunks of at most 4096 bytes which, in the
   order written, are consecutive slices of the frame starting at byte 0 and,
   when the transfer returns, ending at its last byte; only the last chunk
   may be shorter than 4096 bytes.  Consecutive slices that cover the frame
   are the frame: no byte dropped, duplicated or reordered. *)
C6_ChunksTileFrame ==
    LET ch == Pixels(bus)
    IN  /\ \A i \in 1..Len(ch) :
             /\ ch[i].hi - ch[i].lo >= 1
             /\ ch[i].hi - ch[i].lo <= 4096
             /\ ch[i].lo = (IF i = 1 THEN 0 ELSE ch[i - 1].hi)
             /\ ch[i].hi <= image_len
             /\ i < Len(ch) => ch[i].hi - ch[i].lo = 4096
             /\ ch[i].hi - ch[i].lo < 4096 => ch[i].hi = image_len
        /\ frame_status = "sent" =>
             IF image_len = 0 THEN ch = <<>> ELSE ch[Len(ch)].hi = image_len

(* C6 witness: a frame of two full chunks and one byte was sent *)
C6_Witness ==
    /\ frame_status = "sent"
    /\ image_len = 8193
    /\ Len(Pixels(bus)) = 3
    /\ Pixels(bus)[3].lo = 8192

(* C7: a frame update sends 0x2A with 00 00 00 EF, 0x2B with 00 00 01 17,
   0x2C, then the whole frame of 240*280*2 bytes, in this order with nothing
   in between, and the same for every frame. *)
ExpectedFrame ==
    << CmdWire(42), DataWire(<<0, 0, 0, 239>>),
       CmdWire(43), DataWire(<<0, 0, 1, 23>>),
       CmdWire(44) >>
    \o [i \in 1..33 |-> [kind |-> "pixels", bytes |-> <<>>,
                         lo |-> (i - 1) * 4096,
                         hi |-> IF i * 4096 < 134400 THEN i * 4096 ELSE 134400]]

C7_FrameProtocol ==
    /\ 240 * 280 * 2 = 134400
    /\ frame_status # "none" => IsPrefix(WireLog(bus), ExpectedFrame)
    /\ frame_status = "sent" => WireLog(bus) = ExpectedFrame

(* C7 witness: the third frame of a run was sent completely *)
C7_Witness == frame_status = "sent" /\ iter = 2 /\ Len(bus) = 38

(* C8: _reset drives the reset line HIGH, LOW, HIGH in that order, holds LOW
   for at least 100 ms, and at least 100 ms pass after the final HIGH before
   any command is written to the bus. *)
ResetOutputs == SelectSeq(rst_log, LAMBDA e : e.by = "_reset")

C8_ResetSequence ==
    LET r == ResetOutputs
    IN  /\ IsPrefix([i \in 1..Len(r) |-> r[i].level], <<"HIGH", "LOW", "HIGH">>)
        /\ Len(r) = 3 => r[3].t - r[2].t >= 100
        /\ \A i \in 1..Len(bus) : Len(r) = 3 /\ bus[i].t - r[3].t >= 100

(* C8 witness: the first command has just been written after a reset *)
C8_Witness ==
    /\ Len(ResetOutputs) = 3
    /\ Len(bus) = 1 /\ bus[1].bytes = <<1>>
    /\ frame_status = "none"

(* C9: initialization issues 0x01, 0x11, 0x3A (payload 0x05), 0x36 (payload
   0x00), 0x21, 0x13, 0x29 in that order, each once, and a command's settle
   delay (100, 50, 0, 0, 0, 0, 10 ms) has elapsed before the next command
   byte is written. *)
ExpectedInit ==
    << CmdWire(1), CmdWire(17), CmdWire(58), DataWire(<<5>>),
       CmdWire(54), DataWire(<<0>>), CmdWire(33), CmdWire(19), CmdWire(41) >>

SettleMs(c) ==
    CASE c = 1 -> 100 [] c = 17 -> 50 [] c = 41 -> 10 [] OTHER -> 0

ConstructorPcs == {"gpio_setup", "spi_open", "reset_high", "reset_low",
                   "reset_release", "init_cmd", "init_data"}

C9_InitTable ==
    frame_status = "none" =>
      LET cmds == SelectSeq(bus, LAMBDA e : e.kind = "cmd")
      IN  /\ IsPrefix(WireLog(bus), ExpectedInit)
          /\ pc \notin ConstructorPcs \cup {"crashed"} => WireLog(bus) = ExpectedInit
          /\ \A i \in 1..Len(cmds) :
               IF i < Len(cmds)
                 THEN cmds[i + 1].t - cmds[i].t >= SettleMs(cmds[i].bytes[1])
                 ELSE pc \notin {"init_data", "crashed"} =>
                        now - cmds[i].t >= SettleMs(cmds[i].bytes[1])

(* C9 witness: the table has been replayed and the constructor has returned *)
C9_Witness ==
    /\ pc = "loop_top"
    /\ frame_status = "none"
    /\ Len(bus) = 9

(* C10: the controller moves only along UNRESET -> RESETTING -> INITIALIZING
   -> READY -> ADDRESSING -> WRITING -> READY; no address-window command, no
   memory-write command and no pixel data is written before the reset
   sequence and the whole initialization table have completed; every
   successful frame update returns the controller to READY.  A step in which
   a bus write fails abandons the frame (frame_status becomes "dropped") and
   is the failure path, not a move of this machine. *)
PanelEdges ==
    { <<"UNRESET", "RESETTING">>, <<"RESETTING", "INITIALIZING">>,
      <<"INITIALIZING", "READY">>, <<"READY", "ADDRESSING">>,
      <<"ADDRESSING", "WRITING">>, <<"WRITING", "READY">> }

IsFrameTraffic(e) ==
    \/ e.kind = "pixels"
    \/ e.kind = "cmd" /\ e.bytes[1] \in {42, 43, 44}
    \/ e.kind = "data" /\ Len(e.bytes) = 4

IsInitTraffic(e) == ~IsFrameTraffic(e)

LoopOrder ==
    { <<"update_page", "sleep">>, <<"sleep", "loop_top">>,
      <<"loop_top", "update_stats">>, <<"loop_top", "cleanup">>,
      <<"update_stats", "render">>, <<"render", "update">>,
      <<"update", "send_2A">>, <<"render", "cleanup">>,
      <<"cleanup", "cleanup_gpio">>, <<"cleanup_gpio", "done">> }

C11_DroppedFrameLoopContinues ==
    [][ /\ (frame_status' = "dropped" /\ frame_status # "dropped") =>
             /\ frame_status = "sending"
             /\ bus' = bus
             /\ pc' = "update_page"
             /\ running' = running
        /\ frame_status = "dropped" =>
             /\ bus' # bus => (pc = "update" /\ bus' = <<>> /\ frame_status' = "sending")
             /\ pc' # pc => <<pc, pc'>> \in LoopOrder
             /\ (pc = "loop_top" /\ pc' = "cleanup") => ~running
             /\ pc' = "update_stats" => iter' = iter /\ running
      ]_vars

(* C11 witness: a frame was dropped at a chunk after two chunks had been
   written, and the loop has entered its next iteration *)
C11_Witness ==
    /\ frame_status = "dropped"
    /\ Len(Pixels(bus)) = 2
    /\ pc = "render"
    /\ iter = 1
    /\ running

(* C12: an I/O failure during a frame update is reported to the caller of
   update(): what the caller gets back after a dropped frame differs from
   what it gets back after a frame that was sent completely. *)
C12_FailureReportedToCaller ==
    frame_status = "dropped" => update_ret # update_returns

(* C13: whenever SIGINT or SIGTERM is delivered while the main loop runs, the
   running flag is cleared; the iteration under way runs to its end and no
   other is started, the loop test at the top finding the flag false; and
   cleanup eventually runs before the process exits: the backlight is driven
   LOW, then the control lines are released, and main returns. *)
C13_SignalEndsLoopThenCleanup ==
    /\ [][ /\ (running /\ ~running') => pc \in LoopPcs /\ pc' = pc
           /\ ~running => ~running'
           /\ ~running => pc' # "update_stats"
           /\ (~running /\ pc = "loop_top" /\ pc' # pc) => pc' = "cleanup"
           /\ pc' = "cleanup_gpio" => pc = "cleanup" /\ gpio'.bl = "LOW"
           /\ pc' = "done" =>
                pc = "cleanup_gpio" /\ gpio.bl = "LOW"
                /\ gpio' = [rst |-> "UNSET", dc |-> "UNSET", bl |-> "UNSET"]
         ]_vars
    /\ [](~running => <>(pc = "done" /\ exit_status = 0))

(* C13 witness: a signal arrived during the pixel transfer of the second
   frame; the frame was sent, the loop ended at its next test and cleanup ran *)
C13_Witness ==
    /\ ~running
    /\ pc = "done"
    /\ iter = 2
    /\ frame_status = "sent"
    /\ gpio = [rst |-> "UNSET", dc |-> "UNSET", bl |-> "UNSET"]

(* C14: on every exit path of a dashboard run (the loop ended by a signal or
   by an exception), the panel connection is released before the process
   exits: the bus handle opened at startup is closed, the backlight is off
   and the control lines are released. *)
C14_ConnectionReleasedOnExit ==
    pc = "done" =>
      /\ ~spi_open
      /\ gpio = [rst |-> "UNSET", dc |-> "UNSET", bl |-> "UNSET"]

(* C15: if opening the bus or initializing the panel fails at startup, the
   process attempts cleanup of the control lines (backlight off, lines
   released) and then exits with a non-zero status, without having entered
   the main loop. *)
C15_StartupFailureCleansUp ==
    pc = "crashed" =>
      /\ exit_status # 0
      /\ iter = 0 /\ frame_status = "none" /\ pushed["cpu"] = <<>>
      /\ gpio = [rst |-> "UNSET", dc |-> "UNSET", bl |-> "UNSET"]

(* C16: whichever collectors fail in one update step, the snapshot completes:
   each failed field takes its default (0 for the five metrics, the percent
   of {'percent': 0, ...} for the disk, "N/A" for uptime and address, "RPi5"
   for the host name), each other field takes the value collected, no
   exception leaves the step (the loop goes on to render), and exactly one
   sample per metric, the snapshot's, is appended to the history. *)
DefaultOf(c) ==
    CASE c \in {"uptime", "ip"} -> "N/A" [] c = "hostname" -> "RPi5" [] OTHER -> 0

CollectedOf(c, raw) == IF c = "disk" THEN raw.disk.percent ELSE raw[c]

C16_FailedCollectorsDefault ==
    [][ pc = "update_stats" =>
          /\ pc' = "render"
          /\ \A k \in Keys :
               /\ Len(pushed'[k]) = Len(pushed[k]) + 1
               /\ history'[k] = LastN(Append(history[k], stats'[k]), 20)
               /\ pushed'[k][Len(pushed'[k])] = stats'[k]
          /\ \A i \in 1..Len(Collectors) :
               LET c == Collectors[i]
               IN  stats'[c] = IF c \in env'.broken THEN DefaultOf(c)
                                                    ELSE CollectedOf(c, env'.raw)
      ]_vars

(* C16 witness: the step ran with the GPU, disk and address collectors
   broken, on rings that were full *)
C16_Witness ==
    /\ pc = "render"
    /\ env.broken = {"gpu_temp", "disk", "ip"}
    /\ stats.gpu_temp = 0 /\ stats.disk = 0 /\ stats.ip = "N/A"
    /\ stats.cpu = 90 /\ stats.hostname = "raspberrypi"
    /\ Len(history["gpu_temp"]) = 20
    /\ history["gpu_temp"][20] = 0

(* C17: on each sequencer tick, if the time elapsed on the current page is at
   least the page duration, the page index becomes (index + 1) mod the number
   of pages (5 in the carousel, 9 in the premium dashboard) and the
   page-entered timestamp is reset to the clock; otherwise index and
   timestamp are unchanged, as they are by every other step.  Always
   0 <= index < number of pages, and the page after the last one is 0. *)
NumPages == IF dashboard = "premium" THEN 9 ELSE 5

C17_SequencerTick ==
    /\ [][ /\ (pc = "update_page" /\ pc' # pc) =>
                IF now - page_start_time >= page_duration * 1000
                  THEN /\ current_page' = (current_page + 1) % NumPages
                       /\ page_start_time' = now
                  ELSE /\ current_page' = current_page
                       /\ page_start_time' = page_start_time
           /\ pc # "update_page" =>
                current_page' = current_page /\ page_start_time' = page_start_time
           /\ (current_page = NumPages - 1 /\ current_page' # current_page) =>
                current_page' = 0
         ]_vars
    /\ [](current_page \in 0..(NumPages - 1))

(* C17 witness: the premium dashboard has shown its nine pages, the tick
   that was due on the last of them has put it back on the first *)
C17_Witness ==
    /\ dashboard = "premium"
    /\ Len(flips) = 9
    /\ current_page = 0
    /\ pc = "sleep"
    /\ page_start_time = now

(* C18 as stated: given page duration D and a simulated clock, the sequencer
   flips to the next page exactly once in each consecutive D-second interval
   (kD, (k+1)D] since the first page was entered, for every tick schedule the
   main loop can produce, wrapping from the last page back to index 0. *)
FlipsIn(lo, hi) == Cardinality({ i \in 1..Len(flips) : lo < flips[i] /\ flips[i] <= hi })

C18_OnceInEachInterval ==
    pc = "sleep" =>
      /\ \A k \in 0..((now \div (page_duration * 1000)) - 1) :
           FlipsIn(k * page_duration * 1000, (k + 1) * page_duration * 1000) = 1
      /\ current_page = Len(flips) % NumPages

(* C18 as amended: the sequencer flips at the first tick at which at least D
   seconds have passed since the page was entered, and at no other tick: a
   tick never leaves a page that is due, consecutive flips (and the start and
   the first flip) are at least D seconds apart, so that no D-second interval
   holds two flips, and the index counts the flips modulo the number of
   pages, wrapping from the last page to 0. *)
C18_FlipAtFirstDueTick ==
    /\ pc = "sleep" =>
         \/ page_start_time = now
         \/ now - page_start_time < page_duration * 1000
    /\ \A i \in 1..Len(flips) :
         flips[i] - (IF i = 1 THEN 0 ELSE flips[i - 1]) >= page_duration * 1000
    /\ page_start_time = (IF flips = <<>> THEN 0 ELSE flips[Len(flips)])
    /\ current_page = Len(flips) % NumPages
    /\ \A k \in 0..(now \div (page_duration * 1000)) :
         FlipsIn(k * page_duration * 1000, (k + 1) * page_duration * 1000) <= 1

(* C18 witness: with D = 5 and ticks that take their work time, the first two
   flips came 5.5 s after the start and 5.5 s after each other *)
C18_Witness ==
    /\ page_duration = 5
    /\ flips = <<5500, 11000>>
    /\ current_page = 2

(* C20: for the line and area styles (draw_graph, draw_smooth_area_graph,
   draw_filled_area_graph), a history of 0 or 1 samples produces zero draw
   calls: the graph routine leaves the pixel buffer as it was. *)
GraphKey == pages_of(dashboard)[current_page + 1].stat_key

C20_FewSamplesDrawNothing ==
    (pc = "update" /\ Len(history[GraphKey]) < 2) => drawn = <<>>

(* C20 witness: the premium RAM page (filled area) was rendered with one
   sample in its ring and made no draw call *)
C20_Witness ==
    /\ pc = "update"
    /\ dashboard = "premium"
    /\ current_page = 1
    /\ history["memory"] = <<50>>
    /\ drawn = <<>>

(* C19: end to end, from an empty history of capacity 20 with page duration
   5: after three 1-second ticks supplying cpu = 10, 50, 90 the cpu history
   reads [10, 50, 90], the current page index is still 0, and the line graph
   drawn for page 0 has its rightmost data point at a smaller y (closer to
   the top of the region) than its leftmost data point. *)
Segments == SelectSeq(drawn, LAMBDA c : c.what = "segment")

Latest == SelectSeq(drawn, LAMBDA c : c.what = "latest")

C19_EndToEnd ==
    (page_duration = 5 /\ pushed["cpu"] = <<10, 50, 90>>) =>
      /\ history["cpu"] = <<10, 50, 90>>
      /\ current_page = 0
      /\ now - page_start_time < 5000
      /\ Deref(values, history) = <<10, 50, 90>> =>
           /\ Len(Segments) = 2 /\ Len(Latest) = 1
           /\ Segments[1].x1 < Segments[2].x2
           /\ Segments[2].y2 < Segments[1].y1
           /\ Segments[2].x2 < Latest[1].x1
           /\ Latest[1].y1 + 2 = Segments[2].y2
           /\ \A i \in 1..Len(drawn) : drawn[i].y1 >= 160 - 2

(* C19 witness: the third tick, with readings 10, 50, 90, has rendered page
   0, sent its frame and polled the sequencer *)
C19_Witness ==
    /\ page_duration = 5
    /\ pushed["cpu"] = <<10, 50, 90>>
    /\ pc = "sleep"
    /\ iter = 2
    /\ frame_status = "sent"
    /\ Segments[1].y1 = 259 /\ Segments[2].y2 = 171

(* C21 as stated: for the bar style (draw_bar_chart), a history of 0 samples
   and a history of exactly 1 sample each produce zero draw calls. *)
C21_BarsFewSamplesDrawNothing ==
    (pc = "graph_return" /\ graph_call.style = "bars" /\ Len(graph_call.data) < 2)
      => drawn = <<>>

(* C21 as amended: for the bar style a history of 0 samples produces zero
   draw calls and no error; a history of exactly 1 sample is drawn (with a
   ceiling other than 0): the frame, and one bar that spans the region's
   width and stands on the region's bottom. *)
Bars == SelectSeq(drawn, LAMBDA c : c.what = "bar")

C21_BarsOneSampleDrawsOneBar ==
    (pc = "graph_return" /\ graph_call.style = "bars") =>
      /\ Len(graph_call.data) = 0 => drawn = <<>> /\ ~graph_call.raised
      /\ (Len(graph_call.data) = 1 /\ graph_call.max_val # 0) =>
           /\ ~graph_call.raised
           /\ Len(Bars) = 1
           /\ Bars[1].x1 = graph_region("bars").x + 2
           /\ Bars[1].x2 = graph_region("bars").x + graph_region("bars").width - 2
           /\ Bars[1].y2 = graph_region("bars").y + graph_region("bars").height
           /\ drawn[1].what = "background"

(* C21 witness: the bar chart was called with the one sample 10 against the
   load page's ceiling 10 and drew a bar of the region's full height *)
C21_Witness ==
    /\ pc = "graph_return"
    /\ graph_call = [style |-> "bars", data |-> <<10>>, max_val |-> 10,
                     raised |-> FALSE]
    /\ Len(Bars) = 1
    /\ Bars[1].y1 = 148 /\ Bars[1].y2 = 270

(* C22: for the sample sequence [0, ceiling] drawn into a region with top y
   and height h, the y-coordinate computed for the first sample is the
   region bottom y + h and that computed for the last sample is the region
   top y; in general a sample v maps to y + h - floor(v * h / ceiling), in
   the line graph, in both area graphs and for the top of a bar. *)
SampleY(v) ==
    graph_region(graph_call.style).y + graph_region(graph_call.style).height
    - ((v * graph_region(graph_call.style).height) \div graph_call.max_val)

C23_ZeroCeilingIsNoOp ==
    (/\ pc = "graph_return"
     /\ graph_call.max_val = 0
     /\ Len(graph_call.data) >= samples_needed(graph_call.style)) =>
      /\ drawn = <<>>
      /\ ~graph_call.raised

(* C24: within each main-loop iteration the steps run in this order, each at
   most once: collect the snapshot and append one sample per metric, select
   and render the current page, convert the buffer, transmit it (address
   commands, memory write, chunks), check the page timer, sleep.  No page is
   rendered before the first snapshot is collected, and a frame is converted
   and transmitted only from the buffer cleared and redrawn in the same
   iteration. *)
SendPcs == {"send_2A", "send_2A_data", "send_2B", "send_2B_data", "send_2C",
            "send_chunk"}

IterationOrder ==
    { <<"loop_top", "update_stats">>, <<"update_stats", "render">>,
      <<"render", "update">>, <<"update", "send_2A">>,
      <<"send_2A", "send_2A_data">>, <<"send_2A_data", "send_2B">>,
      <<"send_2B", "send_2B_data">>, <<"send_2B_data", "send_2C">>,
      <<"send_2C", "send_chunk">>, <<"send_chunk", "update_page">>,
      <<"update_page", "sleep">>, <<"sleep", "loop_top">> }

C24_IterationOrder ==
    /\ [][ /\ (pc \in LoopPcs /\ pc' # pc) =>
                \/ <<pc, pc'>> \in IterationOrder
                \/ pc \in SendPcs /\ pc' = "update_page" /\ frame_status' = "dropped"
                \/ pc \in {"loop_top", "render"} /\ pc' = "cleanup"
           /\ iter' # iter => pc = "sleep" /\ iter' = iter + 1
           /\ pushed' # pushed =>
                /\ pc = "update_stats" /\ pc' = "render"
                /\ \A k \in Keys : Len(pushed'[k]) = iter + 1
           /\ rendered' # rendered =>
                /\ pc = "render" /\ pc' = "update"
                /\ rendered'.at = iter
                /\ Len(pushed["cpu"]) >= 1
           /\ (bus' # bus /\ pc \in LoopPcs) =>
                /\ pc \in SendPcs \cup {"update"}
                /\ rendered.at = iter
         ]_vars
    /\ []((pc \in SendPcs \cup {"update"}) =>
            /\ rendered.at = iter
            /\ rendered.reads = {pages[current_page + 1].stat_key}
            /\ Len(pushed["cpu"]) = iter + 1)

(* C24 witness: the second iteration has collected, rendered page 0, sent
   its frame, polled the page timer and is at its sleep *)
C24_Witness ==
    /\ pc = "sleep"
    /\ iter = 1
    /\ Len(pushed["cpu"]) = 2
    /\ rendered.at = 1
    /\ frame_status = "sent"
    /\ Len(Pixels(bus)) = 33

(* the samples a returned routine has plotted, each with the y-coordinate it
   was given: segment ends in the line and area graphs, bar tops in the bar
   chart *)
Plotted ==
    IF graph_call.style = "bars"
      THEN { <<graph_call.data[j], Bars[j].y1>> : j \in 1..Len(Bars) }
      ELSE { <<graph_call.data[j], Segments[j].y1>> : j \in 1..Len(Segments) }
           \cup { <<graph_call.data[j + 1], Segments[j].y2>> : j \in 1..Len(Segments) }

RegionTop == graph_region(graph_call.style).y

RegionBottom == graph_region(graph_call.style).y + graph_region(graph_call.style).height

(* C25 as stated: graph values are not clamped to the ceiling: for every
   sample v > ceiling the computed y-coordinate is strictly above the region
   top (smaller than the region's top y), and for every 0 <= v <= ceiling it
   lies between region top and region bottom inclusive. *)
C25_AboveCeilingAboveTop ==
    (pc = "graph_return" /\ ~graph_call.raised) =>
      \A p \in Plotted :
        /\ p[1] > graph_call.max_val => p[2] < RegionTop
        /\ (0 <= p[1] /\ p[1] <= graph_call.max_val) =>
             (RegionTop <= p[2] /\ p[2] <= RegionBottom)

(* C25 as amended: graph values are not clamped to the ceiling: for every
   sample v > ceiling the computed y-coordinate is at or above the region top
   (not larger than the region's top y), and strictly above it once v exceeds
   the ceiling by two pixels' worth (v * h >= ceiling * (h + 2)); for every
   0 <= v <= ceiling it lies between region top and region bottom
   inclusive. *)
C25_AboveCeilingNotBelowTop ==
    (pc = "graph_return" /\ ~graph_call.raised) =>
      \A p \in Plotted :
        /\ p[1] > graph_call.max_val => p[2] <= RegionTop
        /\ p[1] * graph_region(graph_call.style).height
             >= graph_call.max_val * (graph_region(graph_call.style).height + 2)
             => p[2] < RegionTop
        /\ (0 <= p[1] /\ p[1] <= graph_call.max_val) =>
             (RegionTop <= p[2] /\ p[2] <= RegionBottom)

(* C25 witness: the line graph was called against the network page's
   ceiling with a sample just above it, drawn on the region's top row, and
   one half as large again, drawn 55 rows above the region *)
C25_Witness ==
    /\ pc = "graph_return"
    /\ graph_call = [style |-> "line", data |-> <<0, 1000001, 1500000>>,
                     max_val |-> 1000000, raised |-> FALSE]
    /\ Plotted = {<<0, 270>>, <<1000001, 160>>, <<1500000, 105>>}

(* C26: an exception raised inside a main-loop iteration outside update()'s
   own try block (in value formatting or in a draw call of the page renderer)
   ends the main loop: the next step is cleanup's first, no further
   iteration runs, nothing more is collected and no further frame is
   transmitted; cleanup runs to its end and the process ends with main
   returning (exit status 0), the exception not being raised again. *)
CleanupPcs == {"cleanup", "cleanup_gpio", "done"}

C27_FailedFrameRestarts ==
    /\ [][ /\ (frame_status = "dropped" /\ bus' # bus) =>
                /\ pc = "update" /\ pc' = "send_2A"
                /\ bus' = <<>>
                /\ frame_status' = "sending" /\ prev_status' = "dropped"
           /\ (prev_status = "dropped" /\ pc \in SendPcs /\ bus = <<>> /\ bus' # bus) =>
                WireLog(bus') = <<CmdWire(42)>>
         ]_vars
    /\ []((prev_status = "dropped" /\ pc \in SendPcs \cup {"update_page"}) =>
            /\ IsPrefix(WireLog(bus), ExpectedFrame)
            /\ Pixels(bus) # <<>> =>
                 /\ Pixels(bus)[1].lo = 0
                 /\ SubSeq(WireLog(bus), 1, 5) = SubSeq(ExpectedFrame, 1, 5)
            /\ frame_status = "sent" => WireLog(bus) = ExpectedFrame)

(* C27 witness: the first frame of the run was dropped, the second was sent
   from its first command to its last chunk *)
C27_Witness ==
    /\ prev_status = "dropped"
    /\ frame_status = "sent"
    /\ iter = 1
    /\ pc = "update_page"
    /\ WireLog(bus) = ExpectedFrame

(* C28 as stated: the signal handler changes nothing but the running flag, so
   the iteration under way finishes and no new one starts: at most the one
   frame of that iteration is transmitted after the signal, and no metrics
   collection or history push begins after it, the rings holding what they
   held when the signal came. *)
C28_NoPushAfterSignal ==
    ~running =>
      /\ iter <= signal_at.iter + 1
      /\ pc \in SendPcs \cup {"update"} => iter = signal_at.iter
      /\ \A k \in Keys : Len(pushed[k]) = signal_at.pushes

(* C28 as amended: the signal handler changes nothing but the running flag,
   so a signal arriving in the middle of an iteration lets that iteration
   finish; once the flag is cleared no new iteration starts.  After the
   signal only the remaining steps of the iteration under way run: at most
   its one frame is transmitted and at most its one metrics collection with
   its history push takes place (when the signal comes before them), and
   none of a later iteration. *)
C28_SignalLetsIterationFinish ==
    /\ [][ /\ (running /\ ~running') =>
                /\ pc \in LoopPcs
                /\ UNCHANGED <<pc, now, driverVars, history, stats, pushed, values,
                               current_page, page_start_time, iter, convVars,
                               update_ret, flips, drawn, env, rendered>>
           /\ ~running => ~running' /\ signal_at' = signal_at
           /\ (~running /\ pc' # pc) =>
                \/ <<pc, pc'>> \in IterationOrder \ {<<"loop_top", "update_stats">>}
                \/ pc \in SendPcs /\ pc' = "update_page"
                \/ pc \in {"loop_top", "render"} /\ pc' = "cleanup"
                \/ pc \in CleanupPcs /\ pc' \in CleanupPcs
         ]_vars
    /\ [](~running =>
            /\ iter <= signal_at.iter + 1
            /\ pc \in SendPcs \cup {"update", "render", "update_stats"} =>
                 iter = signal_at.iter
            /\ rendered.at <= signal_at.iter
            /\ \A k \in Keys :
                 /\ Len(pushed[k]) <= signal_at.pushes + 1
                 /\ Len(pushed[k]) <= signal_at.iter + 1)

(* C28 witness: the signal came in the second iteration after the loop test
   and before the collection; the iteration collected and pushed, sent its
   frame and slept, and the loop test that followed ended the loop *)
C28_Witness ==
    /\ ~running
    /\ signal_at = [iter |-> 1, pushes |-> 1]
    /\ Len(pushed["cpu"]) = 2
    /\ rendered.at = 1
    /\ frame_status = "sent"
    /\ iter = 2
    /\ pc = "cleanup"

(* what ST7789Display.cleanup does to the GPIO library, lines 220-221 *)
CleanupCalls == <<"GPIO.output(BL_PIN, LOW)", "GPIO.cleanup">>

(* C29: in every run that reaches the main loop, the loop is only ever left
   into cleanup, cleanup runs once and no more (its two GPIO calls are made
   in order, the backlight driven LOW while the lines are still configured,
   then the lines released), and once cleanup has returned no control line
   changes and nothing is written to the bus. *)
C29_CleanupExactlyOnce ==
    /\ [](/\ pc \in LoopPcs => cleanup_log = <<>>
          /\ pc = "cleanup" => cleanup_log = <<>>
          /\ pc = "cleanup_gpio" =>
               /\ cleanup_log = SubSeq(CleanupCalls, 1, 1)
               /\ gpio.bl = LOW
               /\ gpio.rst # UNSET /\ gpio.dc # UNSET
          /\ pc = "done" =>
               /\ cleanup_log = CleanupCalls
               /\ gpio = [rst |-> UNSET, dc |-> UNSET, bl |-> UNSET])
    /\ [][ /\ (pc \in LoopPcs /\ pc' \notin LoopPcs) => pc' = "cleanup"
           /\ pc = "cleanup" => pc' \in {"cleanup", "cleanup_gpio"}
           /\ pc = "cleanup_gpio" => pc' \in {"cleanup_gpio", "done"}
           /\ pc = "done" => UNCHANGED <<pc, gpio, bus, cleanup_log>>
         ]_vars

(* C29 witness: a run that sent a frame, left the loop and finished its
   cleanup: both calls made once, every line released, the last frame still
   the last thing on the bus *)
C29_Witness ==
    /\ pc = "done"
    /\ cleanup_log = CleanupCalls
    /\ gpio = [rst |-> UNSET, dc |-> UNSET, bl |-> UNSET]
    /\ frame_status = "sent"
    /\ WireLog(bus) = ExpectedFrame

(* the pages of the premium dashboard whose key has no ring *)
RinglessPages ==
    { i \in 1..Len(premium_pages) : premium_pages[i].stat_key \notin premium_rings }

(* C30: in the premium dashboard, at every page index the sequencer
   reaches, rendering reads only rings that exist and pushes to none: the
   'connections' and 'nas' pages, the only ones whose key has no ring, go
   to the info renderer, which reads no ring; every other page's key has a
   ring; update_stats pushes to ring keys only; and no render ends the loop
   with a KeyError. *)
C30_NoRingNoRead ==
    /\ [](/\ DOMAIN history = premium_rings
          /\ premium_push_keys \subseteq premium_rings
          /\ current_page \in 0..(Len(premium_pages) - 1)
          /\ LET p == premium_pages[current_page + 1]
             IN  /\ p.stat_key \in {"connections", "nas"} =>
                      /\ premium_dispatch(p) = "draw_info_page"
                      /\ render_reads(premium_dispatch(p), p) = {}
                 /\ p.stat_key \notin {"connections", "nas"} =>
                      p.stat_key \in DOMAIN history
          /\ rendered.reads \subseteq DOMAIN history
          /\ (rendered.renderer = "draw_premium_stat_page") =>
               rendered.reads # {})
    /\ [][ pc = "render" =>
             /\ UNCHANGED <<history, pushed>>
             /\ pc' \in {"render", "update"}
             /\ pc' = "update" =>
                  LET p == premium_pages[current_page + 1]
                  IN  rendered'.renderer =
                        IF current_page + 1 \in RinglessPages
                          THEN "draw_info_page" ELSE "draw_premium_stat_page"
         ]_vars

(* C30 witness: the sequencer has reached the last page, NAS STORAGE, whose
   key has no ring; the tenth iteration pushed to the seven rings and the
   page was drawn by the info renderer without reading any *)
C30_Witness ==
    /\ dashboard = "premium"
    /\ current_page = 8
    /\ pc = "update"
    /\ rendered = [renderer |-> "draw_info_page", reads |-> {}, at |-> 9]
    /\ \A k \in premium_rings : Len(history[k]) = 10
    /\ RinglessPages = {8, 9}

====
